---- MODULE Spec2Model ----
(***************************************************************************)
(* The curriculum-to-execution-request compiler of ludic.training.batching *)
(*   intra_batch_control.py    IdentityStrategy, GRPORequestStrategy       *)
(*   requests_from_dataset.py  make_requests_fn_from_queue and the queue   *)
(*                             and sequence convenience factories          *)
(* and the one-shot question environment of ludic.envs                     *)
(*   dataset_qa_env.py         DatasetQAEnv                                *)
(*                                                                         *)
(* The specifications of the module share its variables:                   *)
(*   SpecStrategy  a strategy instance and a caller's list; the action is  *)
(*                 strategy.expand(requests), called repeatedly.           *)
(*   SpecQueue     a queue-backed produce_batch, stepped one queue access  *)
(*                 at a time, interleaved with producer threads.           *)
(*   SpecDrain     the same with no strategy and a builder that never      *)
(*                 raises, the consumer thread being scheduled fairly.     *)
(*   SpecFactory   a call of one of the two convenience factories, with    *)
(*                 valid and invalid arguments, and calls of the closure.  *)
(*   SpecHooks     the same with a hook that raises on one sample.         *)
(*   SpecPair      two sequence closures built from the same arguments.    *)
(*   SpecRace      one sequence closure called from one or two threads,    *)
(*                 stepped one access of pos or order at a time.           *)
(*   SpecEnv       a DatasetQAEnv, reset and stepped by its caller.        *)
(***************************************************************************)
EXTENDS Integers, Sequences, FiniteSets, TLC

VARIABLES
    strategy,     \* the RequestStrategy: [kind, group_size]
    requests,     \* the caller's list object handed to expand, as it is now
    inp,          \* history: value of that list when the last expand began
    expanded,     \* the list the last expand returned
    rng,          \* state of the strategy's private generator self._rng
    drawn,        \* history: the randint calls of the last expand
    uuidCount,    \* number of uuid4 tokens issued so far in the process
    history,      \* history: [call, pos, gid] of every request expand returned
    calls,        \* number of expand calls so far
    q,            \* queue.Queue contents, head first; items are (idx, sample)
    nPut,         \* number of items producers have enqueued so far
    batch_size,   \* produce_batch's batch_size
    on_empty,     \* exhaustion policy
    raising,      \* samples on which the caller's builder hook raises
    pc,           \* consumer position in _fn: "idle", "loop", "after"
    i,            \* iterations of `for _ in range(batch_size)` completed
    reqs,         \* _fn's local list
    result,       \* outcome of the last finished produce_batch call
    prevExhausted,\* history: the call before the current/last one found nothing
    qAtCall,      \* history: queue contents when the current/last call began
    putSince,     \* history: a producer enqueued after that call began
    pulls,        \* history: get_nowait attempts of the current/last call
    emptyAt,      \* history: nPut when get_nowait raised Empty in that call
    quietSizes,   \* history: sizes of the non-empty batches returned by the
                  \*          calls begun since the last put
    source,       \* which convenience factory is used: "queue", "sequence"
    built,        \* per closure: "no", "ok", or the error the factory raised
    group_size,   \* the factory's group_size argument
    hooks,        \* which override hooks the caller supplied
    samples,      \* the sequence factory's samples argument
    shuffle,      \* the sequence factory's shuffle argument
    rng_seed,     \* the sequence factory's rng_seed argument
    order,        \* per closure: the visitation order (0-based indices)
    pos,          \* per closure: the cursor into order
    srng,         \* per stream: state of the generator random.Random(rng_seed)
    inst,         \* the closure the current/last sequence call runs on
    visited,      \* history, per closure: the sample indices visited so far
    envCfg,       \* DatasetQAEnv constructor arguments: sample and rewards
    qaEnv,        \* DatasetQAEnv instance fields
    outcome,      \* what the last env_reset / env_step call returned or raised
    stepsSince,   \* history: env_step calls accepted since the last env_reset
    taken,        \* history: what the current call has taken so far, in order
                  \*   (queue: the idx of each item; sequence: the number of
                  \*   each visit, counted from 1 over the closure's life)
    delivered,    \* history: idx of the queue items whose requests were
                  \*   returned, in the order of return
    lost,         \* history: what was taken by calls that a hook error ended
    callers,      \* threads that call produce_batch of one closure at once
    thr,          \* per thread: where it is in _fn, and its locals
    served,       \* history: <<thread, position>> of every read of order[pos]
                  \*   since the last cursor reset (the current epoch)
    twice,        \* history: a position was read again in its epoch, by the
                  \*   "same" thread or by the "other" one
    fault         \* history: a read of order[pos] was out of range

stratVars == <<strategy, rng, requests, inp, expanded, drawn, uuidCount, history, calls>>
queueVars == <<q, nPut, batch_size, on_empty, raising, pc, i, reqs, result,
               prevExhausted, qAtCall, putSince, pulls, emptyAt, quietSizes>>
factoryVars == <<source, group_size, hooks, samples, shuffle, rng_seed,
                 order, pos, srng, inst, visited>>
envVars == <<envCfg, qaEnv, outcome, stepsSince>>
ghostVars == <<taken, delivered, lost>>
raceVars == <<callers, thr, served, twice, fault>>
vars == <<stratVars, queueVars, factoryVars, built, envVars, ghostVars, raceVars>>

----------------------------------------------------------------------------
(* Bounds of the model *)

MaxN == 2          \* longest input list handed to expand
MaxG == 3          \* largest group_size
MaxDraw == 1       \* randint results are drawn from 0..MaxDraw
MaxCalls == 2      \* expand calls on one strategy instance
MaxPuts == 5       \* items the producers enqueue in all
MaxBatch == 2      \* largest batch_size
MaxSamples == 3    \* longest samples sequence given to the sequence factory
MaxSeqBatch == 5   \* largest batch_size of a sequence-backed closure
MaxVisits == 6     \* a sequence call begins only below this many visits
MaxFill == 3       \* items in the queue when the queue factory is called
MaxRaceBatch == 2  \* largest batch_size of a closure called from two threads
MaxRaceCalls == 1  \* produce_batch calls a thread makes on that closure

----------------------------------------------------------------------------
(* Values *)

\* Optional[...]: None is the empty tuple, a present value v is <<v>>.
None == <<>>
Some(v) == <<v>>

\* The keys a meta mapping is observed at; a key not in the dict maps to None.
MetaKeys == {"sample_index", "group_id"}
EmptyMeta == [k \in MetaKeys |-> None]

\* EnvSpec(kind, kwargs) and ProtocolSpec(kind, kwargs)
EnvSpec(kind, kwargs) == [kind |-> kind, kwargs |-> kwargs]
ProtocolSpec(kind, kwargs) == [kind |-> kind, kwargs |-> kwargs]

\* RolloutRequest(env, protocol, num_episodes, env_seed, sampling_seed, inference, meta)
RolloutRequest(env, protocol, num_episodes, env_seed, sampling_seed, inference, meta) ==
    [env |-> env, protocol |-> protocol, num_episodes |-> num_episodes,
     env_seed |-> env_seed, sampling_seed |-> sampling_seed,
     inference |-> inference, meta |-> meta]

----------------------------------------------------------------------------
(* Inputs of expand: base requests a caller can build *)

\* Two request shapes: an empty meta dict, and a request that already
\* carries a (stale) group_id next to another key.
Profiles ==
    { [sample |-> "A", num_episodes |-> 2, meta |-> EmptyMeta],
      [sample |-> "B", num_episodes |-> 3,
       meta |-> [k \in MetaKeys |-> IF k = "sample_index" THEN Some(8) ELSE Some(0)]] }

BaseRequests ==
    { RolloutRequest(EnvSpec("gsm8k", [sample |-> p.sample]),
                     ProtocolSpec("single_agent", "protocol_kwargs"),
                     p.num_episodes, es, ss, "inference", p.meta) :
        p \in Profiles, es \in {None, Some(5)}, ss \in {None, Some(7)} }

InputLists == UNION { [1..n -> BaseRequests] : n \in 0..MaxN }

Strategies ==
    { [kind |-> "identity", group_size |-> 0] }
      \cup { [kind |-> "grpo", group_size |-> g] : g \in 1..MaxG }

----------------------------------------------------------------------------
(* IdentityStrategy *)

\* Mutant: identity tags every request with a group id.
IdentityExpandTagged(st) ==
    [st EXCEPT !.expanded =
        [k \in 1..Len(st.requests) |->
            [st.requests[k] EXCEPT !.meta["group_id"] = Some(0)]]]

\* expand returns the list it was given; st is the call's working state.
IdentityExpand(st) == [st EXCEPT !.expanded = st.requests]

----------------------------------------------------------------------------
(* GRPORequestStrategy.expand *)

\* random.Random: a deterministic generator whose whole stream is fixed by
\* its state.  The Mersenne Twister is stood for by a generator of period
\* RngPeriod whose stream 0,0,1,1,..,MaxDraw,MaxDraw repeats, so that two
\* successive values are equal from some states and differ from others.
\* random.Random() without a seed starts in a state taken from OS entropy:
\* any state.
RngPeriod == 2 * (MaxDraw + 1)
RngStates == 0..(RngPeriod - 1)
RngValue(state) == state \div 2
RngAdvance(state) == (state + 1) % RngPeriod

\* str(uuid.uuid4()): a token no earlier call returned; tokens are named by
\* their order of issue, n being the number issued before.
Uuid4(n) == n + 1

\* The working state of one expand call.
ExpandState(reqList, gen, uuids) ==
    [requests |-> reqList, expanded |-> <<>>, rng |-> gen, drawn |-> <<>>,
     uuids |-> uuids]

\* self._rng.randint(0, 2**32 - 1) made for base request j: the generator
\* yields a value and advances; the call is logged with its purpose.
Randint(st, j, what) ==
    [st EXCEPT !.rng = RngAdvance(@),
               !.drawn = Append(@, [base |-> j, what |-> what,
                                    value |-> RngValue(st.rng)])]

LastDrawn(st) == st.drawn[Len(st.drawn)].value

\* 1. the group's environment seed
DrawEnvSeed(st, j) ==
    IF st.requests[j].env_seed # None THEN st ELSE Randint(st, j, "env")

GroupEnvSeed(st0, st1, j) ==
    IF st0.requests[j].env_seed # None
    THEN st0.requests[j].env_seed[1]
    ELSE LastDrawn(st1)

\* 2. the base sampling seed
DrawSamplingSeed(st, j) ==
    IF st.requests[j].sampling_seed # None THEN st ELSE Randint(st, j, "sampling")

BaseSamplingSeed(st0, st1, j) ==
    IF st0.requests[j].sampling_seed # None
    THEN st0.requests[j].sampling_seed[1]
    ELSE LastDrawn(st1)

\* Mutant: the loop index is not added.
SamplingSeedNoOffset(base_sampling_seed, k) == base_sampling_seed

\* sampling_seed = int(base_sampling_seed + i)
SamplingSeed(base_sampling_seed, k) == base_sampling_seed + k

\* new_meta = {**base_req.meta, "group_id": group_id}
NewMeta(meta, group_id) ==
    [k \in MetaKeys |-> IF k = "group_id" THEN Some(group_id) ELSE meta[k]]

\* Mutant: the two seed arguments of replace() are swapped.
NewReqSeedsSwapped(base_req, group_env_seed, sampling_seed, new_meta) ==
    [base_req EXCEPT !.env_seed = Some(sampling_seed),
                     !.sampling_seed = Some(group_env_seed),
                     !.meta = new_meta,
                     !.num_episodes = 1]

\* Mutant: num_episodes is not overridden.
NewReqKeepsEpisodes(base_req, group_env_seed, sampling_seed, new_meta) ==
    [base_req EXCEPT !.env_seed = Some(group_env_seed),
                     !.sampling_seed = Some(sampling_seed),
                     !.meta = new_meta]

\* replace(base_req, env_seed=..., sampling_seed=..., meta=..., num_episodes=1)
NewReq(base_req, group_env_seed, sampling_seed, new_meta) ==
    [base_req EXCEPT !.env_seed = Some(group_env_seed),
                     !.sampling_seed = Some(sampling_seed),
                     !.meta = new_meta,
                     !.num_episodes = 1]

\* Mutant: group_id is written into the base request's own meta dict
\* (base_req.meta["group_id"] = group_id) instead of into a copy.
AppendVariantInPlace(st, j, k, group_env_seed, base_sampling_seed, group_id) ==
    LET base_req == st.requests[j]
        new_meta == [m \in MetaKeys |->
                        IF m = "group_id" THEN Some(group_id) ELSE base_req.meta[m]]
        new_req == [base_req EXCEPT !.env_seed = Some(group_env_seed),
                                    !.sampling_seed = Some(base_sampling_seed + k),
                                    !.meta = new_meta,
                                    !.num_episodes = 1]
    IN  [st EXCEPT !.requests[j].meta = new_meta,
                   !.expanded = Append(@, new_req)]

\* One iteration of `for i in range(self.group_size)`; k is the loop's i.
AppendVariant(st, j, k, group_env_seed, base_sampling_seed, group_id) ==
    LET base_req == st.requests[j]
        new_req == NewReq(base_req, group_env_seed,
                          SamplingSeed(base_sampling_seed, k),
                          NewMeta(base_req.meta, group_id))
    IN  [st EXCEPT !.expanded = Append(@, new_req)]

RECURSIVE VariantLoop(_, _, _, _, _, _, _)
VariantLoop(st, j, k, G, group_env_seed, base_sampling_seed, group_id) ==
    IF k >= G THEN st
    ELSE VariantLoop(AppendVariant(st, j, k, group_env_seed, base_sampling_seed, group_id),
                     j, k + 1, G, group_env_seed, base_sampling_seed, group_id)

\* Mutant: the group id is generated once per expand call, before the
\* loop over the base requests, instead of once per base request.
ExpandGroupSharedId(st, j, G) ==
    LET st1 == DrawEnvSeed(st, j)
        group_env_seed == GroupEnvSeed(st, st1, j)
        st2 == DrawSamplingSeed(st1, j)
        base_sampling_seed == BaseSamplingSeed(st1, st2, j)
        group_id == Uuid4(uuidCount)
        st3 == [st2 EXCEPT !.uuids = uuidCount + 1]
    IN  VariantLoop(st3, j, 0, G, group_env_seed, base_sampling_seed, group_id)

\* One iteration of `for base_req in requests`.
ExpandGroup(st, j, G) ==
    LET st1 == DrawEnvSeed(st, j)
        group_env_seed == GroupEnvSeed(st, st1, j)
        st2 == DrawSamplingSeed(st1, j)
        base_sampling_seed == BaseSamplingSeed(st1, st2, j)
        group_id == Uuid4(st2.uuids)
        st3 == [st2 EXCEPT !.uuids = @ + 1]
    IN  VariantLoop(st3, j, 0, G, group_env_seed, base_sampling_seed, group_id)

\* Mutant: the base requests are walked from the last to the first.
RECURSIVE GroupLoopBackwards(_, _, _)
GroupLoopBackwards(st, j, G) ==
    IF j > Len(st.requests) THEN st
    ELSE GroupLoopBackwards(ExpandGroup(st, Len(st.requests) + 1 - j, G),
                            j + 1, G)

RECURSIVE GroupLoop(_, _, _)
GroupLoop(st, j, G) ==
    IF j > Len(st.requests) THEN st
    ELSE GroupLoop(ExpandGroup(st, j, G), j + 1, G)

GRPOExpand(st, G) == GroupLoop(st, 1, G)

\* strategy.expand(reqList) for the configured strategy.
StrategyExpand(strat, st) ==
    IF strat.kind = "grpo" THEN GRPOExpand(st, strat.group_size)
    ELSE IdentityExpand(st)

----------------------------------------------------------------------------
(* A strategy instance and its caller *)

NoStrategy == [kind |-> "none", group_size |-> 0]
NoResult == [kind |-> "none", batch |-> <<>>, expands |-> 0]

\* Text as far as strip() and lower() can tell: a core, whether it carries
\* surrounding blanks, and whether it is in upper case.
Text(core, padded, upper) == [core |-> core, padded |-> padded, upper |-> upper]
Strip(t) == [t EXCEPT !.padded = FALSE]
Lower(t) == [t EXCEPT !.upper = FALSE]

\* An observation: the question, or the verdict of the one step.
Obs(kind, arg) == [kind |-> kind, arg |-> arg]

NoInfo ==
    [question_id |-> None, raw_action |-> None, parsed_answer |-> None,
     target_answer |-> None, correct |-> None]
NoOutcome ==
    [kind |-> "none", obs |-> Obs("empty", None), reward |-> None,
     terminated |-> None, truncated |-> None, info |-> NoInfo]

\* The fields __init__ sets.
NewEnv ==
    [current_prompt |-> Obs("empty", None), current_answer |-> Text("", FALSE, FALSE),
     current_id |-> None, done |-> FALSE, latest_obs |-> Obs("empty", None)]

\* No DatasetQAEnv is in use.
EnvIdle ==
    /\ envCfg = [sample |-> [question |-> "", answer |-> Text("", FALSE, FALSE), id |-> None],
                 correct_reward |-> 1, incorrect_reward |-> 0]
    /\ qaEnv = NewEnv /\ outcome = NoOutcome /\ stepsSince = 0

\* Nothing has been taken, returned or lost yet.
GhostIdle == taken = <<>> /\ delivered = <<>> /\ lost = {}

\* The threads of a program that calls one sequence-backed closure from
\* several threads; a thread is outside _fn, or at one of its statements.
Threads == {1, 2}
IdleThread == [pc |-> "idle", k |-> 0, tmp |-> 0, ncalls |-> 0]

\* A single caller that has called nothing.
RaceIdle ==
    /\ callers = 1
    /\ thr = [t \in Threads |-> IdleThread]
    /\ served = {} /\ twice = {} /\ fault = FALSE

\* The closures a program builds with the sequence factory.
Insts == {1, 2}

\* The hooks left at their defaults (every override is None).
DefaultHooks ==
    [env_kwargs_fn |-> FALSE, request_meta_fn |-> FALSE,
     env_seed_fn |-> FALSE, sampling_seed_fn |-> FALSE]

\* No convenience factory is in use.
FactoryIdle ==
    /\ source = "none" /\ group_size = 1 /\ hooks = DefaultHooks
    /\ samples = <<>> /\ shuffle = FALSE /\ rng_seed = 0
    /\ order = [a \in Insts |-> <<>>] /\ pos = [a \in Insts |-> 0]
    /\ srng = [a \in Insts |-> 0] /\ inst = 1
    /\ visited = [a \in Insts |-> <<>>]

QueueIdle ==
    /\ q = <<>> /\ nPut = 0 /\ batch_size = 1 /\ on_empty = "raise"
    /\ raising = {} /\ pc = "idle" /\ i = 0 /\ reqs = <<>>
    /\ result = NoResult /\ prevExhausted = FALSE /\ qAtCall = <<>>
    /\ putSince = FALSE /\ pulls = 0 /\ emptyAt = None /\ quietSizes = <<>>

InitStrategy ==
    /\ strategy \in Strategies
    /\ rng \in (IF strategy.kind = "grpo" THEN RngStates ELSE {0})
    /\ requests \in InputLists
    /\ inp = requests
    /\ expanded = <<>>
    /\ drawn = <<>>
    /\ uuidCount = 0
    /\ history = <<>>
    /\ calls = 0
    /\ QueueIdle
    /\ FactoryIdle
    /\ built = [a \in Insts |-> "no"]
    /\ EnvIdle
    /\ GhostIdle
    /\ RaceIdle

\* The tags of the requests one expand call returned.
Tags(call, out) ==
    [k \in 1..Len(out) |-> [call |-> call, pos |-> k, gid |-> out[k].meta["group_id"]]]

\* expanded = strategy.expand(requests)
Expand ==
    /\ calls < MaxCalls
    /\ LET st == StrategyExpand(strategy, ExpandState(requests, rng, uuidCount)) IN
            /\ inp' = requests
            /\ requests' = st.requests
            /\ rng' = st.rng
            /\ expanded' = st.expanded
            /\ drawn' = st.drawn
            /\ uuidCount' = st.uuids
            /\ history' = IF st.expanded = <<>> THEN history
                          ELSE history \o Tags(calls + 1, st.expanded)
            /\ calls' = calls + 1
    /\ UNCHANGED strategy
    /\ UNCHANGED queueVars
    /\ UNCHANGED <<factoryVars, built>>
    /\ UNCHANGED envVars
    /\ UNCHANGED ghostVars
    /\ UNCHANGED raceVars

NextStrategy == Expand

SpecStrategy == InitStrategy /\ [][NextStrategy]_vars

----------------------------------------------------------------------------
(* Properties of GRPORequestStrategy.expand, stated on the last call *)

GRPOCalled == strategy.kind = "grpo" /\ calls > 0

\* Position k of the output belongs to the group of base request BaseOf(k),
\* as its variant number VariantOf(k) (0-indexed).
BaseOf(k) == ((k - 1) \div strategy.group_size) + 1
VariantOf(k) == (k - 1) % strategy.group_size
GroupPositions(j) == { k \in 1..Len(expanded) : BaseOf(k) = j }

\* out carries everything expand copies from base untouched.
DerivedFrom(out, base) ==
    /\ out.env = base.env
    /\ out.protocol = base.protocol
    /\ out.inference = base.inference
    /\ \A m \in MetaKeys \ {"group_id"} : out.meta[m] = base.meta[m]
    /\ base.env_seed # None => out.env_seed = base.env_seed

\* The randint calls made for base request j and purpose what.
DrawsFor(j, what) ==
    { d \in 1..Len(drawn) : drawn[d].base = j /\ drawn[d].what = what }

\* C1: expand returns exactly N*G requests; outputs (j-1)*G+1 .. j*G are
\* derived from base request j, so groups are contiguous and in the order
\* of their base requests; within a group sampling seeds ascend.
C1_GroupsContiguousInOrder ==
    GRPOCalled =>
        /\ Len(expanded) = Len(inp) * strategy.group_size
        /\ \A k \in 1..Len(expanded) :
              /\ BaseOf(k) \in 1..Len(inp)
              /\ DerivedFrom(expanded[k], inp[BaseOf(k)])
        /\ \A k \in 1..(Len(expanded) - 1) :
              BaseOf(k) = BaseOf(k + 1) =>
                  expanded[k].sampling_seed[1] < expanded[k + 1].sampling_seed[1]

C1_Witness ==
    /\ GRPOCalled /\ strategy.group_size = 3 /\ Len(inp) = 2
    /\ inp[1].env # inp[2].env
    /\ Len(expanded) = 6
    /\ expanded[3].env = inp[1].env /\ expanded[4].env = inp[2].env

\* C2: the G outputs of a group carry one env_seed: the base request's
\* when present, otherwise the value of the single randint call made for
\* that group's environment seed.
C2_OneEnvSeedPerGroup ==
    GRPOCalled =>
        \A j \in 1..Len(inp) :
            LET seeds == { expanded[k].env_seed : k \in GroupPositions(j) }
                draws == DrawsFor(j, "env")
            IN  /\ Cardinality(seeds) = 1
                /\ IF inp[j].env_seed # None
                   THEN seeds = {inp[j].env_seed} /\ draws = {}
                   ELSE /\ Cardinality(draws) = 1
                        /\ \A d \in draws : seeds = {Some(drawn[d].value)}

C2_Witness ==
    /\ GRPOCalled /\ strategy.group_size = 3 /\ Len(inp) = 2
    /\ inp[1].env_seed = None /\ inp[2].env_seed = Some(5)
    /\ \A k \in 1..3 : expanded[k].env_seed = Some(1)
    /\ Len(drawn) = 1
    /\ \A k \in 4..6 : expanded[k].env_seed = Some(5)

\* C3: output i of a group has sampling_seed = base_sampling_seed + i, the
\* base being the request's own sampling_seed when present and otherwise the
\* value of the single randint call made for it; the seeds of a group are
\* pairwise distinct and strictly ascending.
C3_SamplingSeedsAscend ==
    GRPOCalled =>
        \A j \in 1..Len(inp) :
            LET draws == DrawsFor(j, "sampling") IN
            /\ IF inp[j].sampling_seed # None THEN draws = {}
               ELSE Cardinality(draws) = 1
            /\ \A k \in GroupPositions(j) :
                  /\ inp[j].sampling_seed # None =>
                        expanded[k].sampling_seed =
                            Some(inp[j].sampling_seed[1] + VariantOf(k))
                  /\ \A d \in draws :
                        expanded[k].sampling_seed = Some(drawn[d].value + VariantOf(k))
            /\ \A k1, k2 \in GroupPositions(j) :
                  k1 < k2 => expanded[k1].sampling_seed[1] < expanded[k2].sampling_seed[1]

C3_Witness ==
    /\ GRPOCalled /\ strategy.group_size = 3 /\ Len(inp) = 2
    /\ inp[1].sampling_seed = Some(7) /\ inp[2].sampling_seed = None
    /\ <<expanded[1].sampling_seed, expanded[2].sampling_seed,
         expanded[3].sampling_seed>> = <<Some(7), Some(8), Some(9)>>
    /\ <<expanded[4].sampling_seed, expanded[5].sampling_seed,
         expanded[6].sampling_seed>> = <<Some(1), Some(2), Some(3)>>

\* C4: over all expand calls so far, two returned requests have the same
\* group_id exactly when they come from the same call and the same base
\* request occurrence; each has a group_id; every other meta key of the base
\* request is carried over unchanged.
C4_GroupIdIdentifiesGroup ==
    strategy.kind = "grpo" =>
        /\ \A a, b \in 1..Len(history) :
              (history[a].gid = history[b].gid) <=>
                  /\ history[a].call = history[b].call
                  /\ BaseOf(history[a].pos) = BaseOf(history[b].pos)
        /\ \A a \in 1..Len(history) : history[a].gid # None
        /\ \A k \in 1..Len(expanded) :
              /\ BaseOf(k) \in 1..Len(inp)
              /\ \A m \in MetaKeys \ {"group_id"} :
                    expanded[k].meta[m] = inp[BaseOf(k)].meta[m]

C4_Witness ==
    /\ strategy.kind = "grpo" /\ strategy.group_size = 2 /\ calls = 2
    /\ Len(inp) = 2 /\ inp[1] = inp[2]
    /\ inp[1].meta["sample_index"] = Some(8) /\ inp[1].meta["group_id"] = Some(0)
    /\ Len(history) = 8
    /\ expanded[1].meta["group_id"] = expanded[2].meta["group_id"]
    /\ expanded[2].meta["group_id"] # expanded[3].meta["group_id"]
    /\ expanded[3].meta["sample_index"] = Some(8)

\* C5: every request expand returns has num_episodes = 1.
C5_OneEpisode ==
    GRPOCalled => \A k \in 1..Len(expanded) : expanded[k].num_episodes = 1

C5_Witness ==
    /\ GRPOCalled /\ Len(inp) = 2
    /\ inp[1].num_episodes = 3 /\ inp[2].num_episodes = 2
    /\ Len(expanded) = 2 * strategy.group_size
    /\ expanded[1].num_episodes = 1

\* C6: expand (identity or GRPO) leaves its input as it was: the caller's
\* list has the length, order and field values it had when the call began.
C6_InputNotMutated ==
    calls > 0 => requests = inp

C6_Witness ==
    /\ GRPOCalled /\ Len(inp) = 2
    /\ requests[1].meta["group_id"] = None /\ requests[1].num_episodes = 2
    /\ requests[1].env_seed = None /\ requests[1].sampling_seed = None
    /\ Len(expanded) = 2 * strategy.group_size
    /\ expanded[1].meta["group_id"] # None /\ expanded[1].env_seed # None

\* C24: IdentityStrategy.expand(xs) returns xs: the same length, the same
\* order, every element equal field by field (so nothing is added to meta),
\* no seed drawn and no uuid issued; and xs is left as it was.
C24_IdentityReturnsInput ==
    (strategy.kind = "identity" /\ calls > 0) =>
        /\ Len(expanded) = Len(inp)
        /\ \A k \in 1..Len(inp) :
              /\ expanded[k] = inp[k]
              /\ expanded[k].meta = inp[k].meta
        /\ expanded = inp
        /\ requests = inp
        /\ drawn = <<>> /\ uuidCount = 0

\* Identity was called on two different requests, one with seeds and meta
\* set and one without.
C24_Witness ==
    /\ strategy.kind = "identity" /\ calls = 2
    /\ Len(inp) = 2 /\ expanded = inp /\ inp[1] # inp[2]
    /\ inp[1].env_seed = None /\ inp[1].meta = EmptyMeta
    /\ inp[2].env_seed # None /\ inp[2].meta["sample_index"] # None

----------------------------------------------------------------------------
(* make_dataset_queue_requests_fn / make_requests_fn_from_queue *)

\* What the producers enqueue: (idx, sample) tuples, idx counting the puts.
Dataset(idx) == IF idx % 3 = 1 THEN "A" ELSE IF idx % 3 = 2 THEN "B" ELSE "C"
Item(idx) == <<idx, Dataset(idx)>>

\* The override hooks a caller may supply.
EnvKwargsFn(sample) == [question |-> sample]
RequestMetaFn(idx, sample) == [EmptyMeta EXCEPT !["sample_index"] = Some(idx)]
EnvSeedFn(idx, sample) == idx + 10
SamplingSeedFn(idx, sample) == 100

\* The hooks in effect: the override when one was supplied, else the default.
env_kwargs_fn_final(sample) ==
    IF hooks.env_kwargs_fn THEN EnvKwargsFn(sample) ELSE [sample |-> sample]

MetaOf(idx, sample) ==
    IF hooks.request_meta_fn THEN RequestMetaFn(idx, sample) ELSE EmptyMeta

\* Mutant: the default env seed is the global visit count, not the index.
env_seed_fn_final_VisitCount(idx, sample) ==
    IF hooks.env_seed_fn THEN EnvSeedFn(idx, sample) ELSE Len(visited[inst])

env_seed_fn_final(idx, sample) ==
    IF hooks.env_seed_fn THEN EnvSeedFn(idx, sample) ELSE idx

\* Mutant: the sampling seed follows the env seed override.
sampling_seed_fn_final_FollowsEnv(idx, sample) ==
    IF hooks.env_seed_fn THEN EnvSeedFn(idx, sample) ELSE idx

sampling_seed_fn_final(idx, sample) ==
    IF hooks.sampling_seed_fn THEN SamplingSeedFn(idx, sample) ELSE idx

\* Mutant: the builder leaves both seeds unset.
BuildUnseeded(item) ==
    LET idx == item[1]
        sample == item[2]
    IN  RolloutRequest(EnvSpec("gsm8k", env_kwargs_fn_final(sample)),
                       ProtocolSpec("single_agent", "protocol_kwargs"),
                       1, None, None, "inference", MetaOf(idx, sample))

\* _build(item): the base request of one (idx, sample) item.
Build(item) ==
    LET idx == item[1]
        sample == item[2]
    IN  RolloutRequest(EnvSpec("gsm8k", env_kwargs_fn_final(sample)),
                       ProtocolSpec("single_agent", "protocol_kwargs"),
                       1, Some(env_seed_fn_final(idx, sample)),
                       Some(sampling_seed_fn_final(idx, sample)),
                       "inference", MetaOf(idx, sample))

\* A caller-supplied hook (env_kwargs_fn) that raises on some samples.
BuildRaises(item) == item[2] \in raising

\* Mutant: the newest item is taken (a LIFO pop).
GetNowaitNewest(queue) ==
    IF queue = <<>> THEN [empty |-> TRUE, item |-> <<>>, rest |-> queue]
    ELSE [empty |-> FALSE, item |-> queue[Len(queue)],
          rest |-> SubSeq(queue, 1, Len(queue) - 1)]

\* Mutant: once a call has found nothing, the source stays exhausted.
GetNowaitLatched(queue) ==
    IF queue = <<>> \/ prevExhausted
    THEN [empty |-> TRUE, item |-> <<>>, rest |-> queue]
    ELSE [empty |-> FALSE, item |-> Head(queue), rest |-> Tail(queue)]

\* Mutant: the oldest item is read and left in the queue.
GetNowaitPeek(queue) ==
    IF queue = <<>> THEN [empty |-> TRUE, item |-> <<>>, rest |-> queue]
    ELSE [empty |-> FALSE, item |-> Head(queue), rest |-> queue]

\* q.get_nowait(): Empty, or the oldest item.
GetNowait(queue) ==
    IF queue = <<>> THEN [empty |-> TRUE, item |-> <<>>, rest |-> queue]
    ELSE [empty |-> FALSE, item |-> Head(queue), rest |-> Tail(queue)]

\* Mutant: `continue` in place of `break` on queue.Empty.
AfterEmptyContinue(done, size) == IF done + 1 >= size THEN "after" ELSE "loop"

\* except queue.Empty: break
AfterEmpty(done, size) == "after"

\* `for _ in range(batch_size)` after an iteration that appended a request.
AfterAppend(done, size) == IF done >= size THEN "after" ELSE "loop"

\* Mutant: an empty result always raises, whatever the policy.
FnReturnAlwaysRaises(reqList, strat, policy, gen, uuids) ==
    IF reqList = <<>>
    THEN [kind |-> "RequestsExhausted", batch |-> <<>>, expands |-> 0,
          rng |-> gen, uuids |-> uuids, drawn |-> <<>>]
    ELSE IF strat.kind # "none"
    THEN LET st == StrategyExpand(strat, ExpandState(reqList, gen, uuids))
         IN  [kind |-> "returned", batch |-> st.expanded, expands |-> 1,
              rng |-> st.rng, uuids |-> st.uuids, drawn |-> st.drawn]
    ELSE [kind |-> "returned", batch |-> reqList, expands |-> 0,
          rng |-> gen, uuids |-> uuids, drawn |-> <<>>]

\* The part of _fn after the loop: `if not reqs` ... `return reqs`.
FnReturn(reqList, strat, policy, gen, uuids) ==
    IF reqList = <<>>
    THEN [kind |-> IF policy = "return_empty" THEN "returned"
                   ELSE "RequestsExhausted",
          batch |-> <<>>, expands |-> 0, rng |-> gen, uuids |-> uuids,
          drawn |-> <<>>]
    ELSE IF strat.kind # "none"
    THEN LET st == StrategyExpand(strat, ExpandState(reqList, gen, uuids))
         IN  [kind |-> "returned", batch |-> st.expanded, expands |-> 1,
              rng |-> st.rng, uuids |-> st.uuids, drawn |-> st.drawn]
    ELSE [kind |-> "returned", batch |-> reqList, expands |-> 0,
          rng |-> gen, uuids |-> uuids, drawn |-> <<>>]

StrategyIdle ==
    /\ requests = <<>> /\ inp = <<>> /\ expanded = <<>> /\ drawn = <<>>
    /\ uuidCount = 0 /\ history = <<>> /\ calls = 0

InitQueue ==
    /\ strategy \in {NoStrategy} \cup Strategies
    /\ rng \in (IF strategy.kind = "grpo" THEN RngStates ELSE {0})
    /\ StrategyIdle
    /\ q = <<>>
    /\ nPut = 0
    /\ batch_size \in 1..MaxBatch
    /\ on_empty \in {"raise", "return_empty"}
    /\ raising \in {{}, {"C"}}
    /\ pc = "idle" /\ i = 0 /\ reqs = <<>>
    /\ result = NoResult /\ prevExhausted = FALSE /\ qAtCall = <<>>
    /\ putSince = FALSE /\ pulls = 0 /\ emptyAt = None /\ quietSizes = <<>>
    /\ FactoryIdle
    /\ built = [a \in Insts |-> IF a = 1 THEN "ok" ELSE "no"]
    /\ EnvIdle
    /\ GhostIdle
    /\ RaceIdle

config == <<strategy, batch_size, on_empty, raising>>
stratHistory == <<requests, inp, expanded, drawn, history, calls>>

\* A producer thread: q.put((idx, sample)).
Put ==
    /\ nPut < MaxPuts
    /\ q' = Append(q, Item(nPut + 1))
    /\ nPut' = nPut + 1
    /\ putSince' = TRUE
    /\ quietSizes' = <<>>
    /\ UNCHANGED <<factoryVars, built, config, stratHistory, rng, uuidCount, pc, i, reqs, result,
                   prevExhausted, qAtCall, pulls, emptyAt>>
    /\ UNCHANGED envVars
    /\ UNCHANGED ghostVars
    /\ UNCHANGED raceVars

\* The consumer calls produce_batch() of a queue-backed closure that was
\* built: reqs = [] and the loop begins.
Call ==
    /\ pc = "idle"
    /\ source # "sequence"
    /\ built[1] = "ok"
    /\ pc' = AfterAppend(0, batch_size)
    /\ i' = 0
    /\ reqs' = <<>>
    /\ prevExhausted' = (result.kind \in {"returned", "RequestsExhausted"}
                         /\ result.batch = <<>>)
    /\ qAtCall' = q
    /\ putSince' = FALSE
    /\ pulls' = 0
    /\ emptyAt' = None
    /\ UNCHANGED <<factoryVars, built, config, stratHistory, rng, uuidCount, q, nPut, result, quietSizes>>
    /\ UNCHANGED envVars
    /\ taken' = <<>> /\ UNCHANGED <<delivered, lost>>
    /\ UNCHANGED raceVars

\* One loop iteration in which get_nowait raises queue.Empty.
GetEmpty ==
    /\ pc = "loop"
    /\ GetNowait(q).empty
    /\ pulls' = pulls + 1
    /\ emptyAt' = Some(nPut)
    /\ i' = i + 1
    /\ pc' = AfterEmpty(i, batch_size)
    /\ UNCHANGED <<factoryVars, built, config, stratHistory, rng, uuidCount, q, nPut, reqs, result,
                   prevExhausted, qAtCall, putSince, quietSizes>>
    /\ UNCHANGED envVars
    /\ UNCHANGED ghostVars
    /\ UNCHANGED raceVars

\* One loop iteration that gets an item and appends build_request(item).
GetItem ==
    /\ pc = "loop"
    /\ LET got == GetNowait(q) IN
         /\ ~got.empty
         /\ ~BuildRaises(got.item)
         /\ q' = got.rest
         /\ reqs' = Append(reqs, Build(got.item))
    /\ pulls' = pulls + 1
    /\ i' = i + 1
    /\ pc' = AfterAppend(i + 1, batch_size)
    /\ UNCHANGED <<factoryVars, built, config, stratHistory, rng, uuidCount, nPut, result,
                   prevExhausted, qAtCall, putSince, emptyAt, quietSizes>>
    /\ UNCHANGED envVars
    /\ taken' = Append(taken, GetNowait(q).item[1]) /\ UNCHANGED <<delivered, lost>>
    /\ UNCHANGED raceVars

\* Mutant: the error is swallowed and the requests built so far are returned.
HookErrorPartialBatch(reqList) ==
    [kind |-> "returned", batch |-> reqList, expands |-> 0]

\* An exception of a hook leaves _fn: the caller gets the error, no list.
HookError(reqList) == [kind |-> "error", batch |-> <<>>, expands |-> 0]

\* Mutant: the item the builder failed on is put back at the head.
QueueAfterBuildErrorPutBack(got) == <<got.item>> \o got.rest

\* The queue when the exception of build_request leaves _fn: get_nowait has
\* removed the item and nothing puts it back.
QueueAfterBuildError(got) == got.rest

\* One loop iteration that gets an item on which build_request raises: the
\* exception leaves _fn.
GetItemBuildRaises ==
    /\ pc = "loop"
    /\ LET got == GetNowait(q) IN
         /\ ~got.empty
         /\ BuildRaises(got.item)
         /\ q' = QueueAfterBuildError(got)
    /\ pulls' = pulls + 1
    /\ i' = i + 1
    /\ reqs' = <<>>
    /\ result' = HookError(reqs)
    /\ pc' = "idle"
    /\ UNCHANGED <<factoryVars, built, config, stratHistory, rng, uuidCount, nPut,
                   prevExhausted, qAtCall, putSince, emptyAt, quietSizes>>
    /\ UNCHANGED envVars
    /\ lost' = lost \cup {taken[k] : k \in 1..Len(taken)} \cup {GetNowait(q).item[1]}
    /\ taken' = <<>> /\ UNCHANGED delivered
    /\ UNCHANGED raceVars

\* The loop is over: raise RequestsExhausted, or return the batch.
Return ==
    /\ pc = "after"
    /\ LET r == FnReturn(reqs, strategy, on_empty, rng, uuidCount) IN
         /\ result' = [kind |-> r.kind, batch |-> r.batch, expands |-> r.expands]
         /\ rng' = r.rng
         /\ uuidCount' = r.uuids
         /\ drawn' = r.drawn
         /\ quietSizes' = IF r.batch = <<>> \/ putSince THEN quietSizes
                          ELSE Append(quietSizes, Len(r.batch))
    /\ reqs' = <<>>
    /\ pc' = "idle"
    /\ UNCHANGED <<factoryVars, built, config, requests, inp, expanded, history, calls,
                   q, nPut, i, prevExhausted, qAtCall, putSince, pulls, emptyAt>>
    /\ UNCHANGED envVars
    /\ delivered' = (IF result'.kind = "returned" THEN delivered \o taken ELSE delivered)
    /\ taken' = <<>> /\ UNCHANGED lost
    /\ UNCHANGED raceVars

ConsumerStep == GetEmpty \/ GetItem \/ GetItemBuildRaises \/ Return

NextQueue == Put \/ Call \/ GetEmpty \/ GetItem \/ GetItemBuildRaises \/ Return

SpecQueue == InitQueue /\ [][NextQueue]_vars

\* Producers fill the queue while one consumer thread keeps calling
\* produce_batch of a closure with no strategy and a builder that never
\* raises. The consumer thread runs: a call that began goes on to its return,
\* and an idle consumer calls again.
InitDrain ==
    /\ strategy = NoStrategy
    /\ rng = 0
    /\ StrategyIdle
    /\ q = <<>>
    /\ nPut = 0
    /\ batch_size \in 1..MaxBatch
    /\ on_empty \in {"raise", "return_empty"}
    /\ raising = {}
    /\ pc = "idle" /\ i = 0 /\ reqs = <<>>
    /\ result = NoResult /\ prevExhausted = FALSE /\ qAtCall = <<>>
    /\ putSince = FALSE /\ pulls = 0 /\ emptyAt = None /\ quietSizes = <<>>
    /\ FactoryIdle
    /\ built = [a \in Insts |-> IF a = 1 THEN "ok" ELSE "no"]
    /\ EnvIdle
    /\ GhostIdle
    /\ RaceIdle

DrainStep == GetEmpty \/ GetItem \/ Return

NextDrain == Put \/ Call \/ GetEmpty \/ GetItem \/ Return

SpecDrain ==
    InitDrain /\ [][NextDrain]_vars /\ WF_vars(Call) /\ WF_vars(DrainStep)

----------------------------------------------------------------------------
(* Properties of the queue-backed produce_batch, stated on the last call *)

\* A produce_batch call has finished and none is running.
CallDone == pc = "idle" /\ result.kind # "none"

Min(a, b) == IF a <= b THEN a ELSE b

\* Requests each pulled item turns into: G under GRPO, one otherwise.
PerItem == IF strategy.kind = "grpo" THEN strategy.group_size ELSE 1
ItemOf(k) == ((k - 1) \div PerItem) + 1

\* Items the last call took off the queue (an Empty attempt takes none).
Obtained == pulls - (IF emptyAt # None THEN 1 ELSE 0)

\* What a call that began with the queue holding qAtCall, and ran with no
\* producer interfering, is to take: the oldest min(batch_size, m) items.
Due == Min(batch_size, Len(qAtCall))
NoneRaises(n) == \A j \in 1..n : ~BuildRaises(qAtCall[j])

\* batch holds, in order, the requests of the first n items of qAtCall.
BatchOfFirst(batch, n) ==
    /\ Len(batch) = n * PerItem
    /\ \A k \in 1..Len(batch) :
          LET item == qAtCall[ItemOf(k)] IN
          /\ batch[k].env = EnvSpec("gsm8k", [sample |-> item[2]])
          /\ batch[k].env_seed = Some(item[1])
          /\ batch[k].sampling_seed = Some(item[1] + ((k - 1) % PerItem))
          /\ (strategy.kind # "grpo" => batch[k] = Build(item))
          /\ (strategy.kind = "grpo" => batch[k].meta["group_id"] # None)

\* C7: with no producer enqueueing since the call began, produce_batch
\* returns the requests of the oldest min(batch_size, remaining) items in
\* FIFO order, through the strategy when one is set, and leaves the rest
\* queued; a partial batch is returned as it is, so that of the batches
\* returned in a row only the last can be short (5 items, batch_size 2:
\* sizes 2, 2, 1).
C7_FifoPartialBatches ==
    /\ (CallDone /\ ~putSince /\ NoneRaises(Due) /\ Due > 0) =>
          /\ result.kind = "returned"
          /\ BatchOfFirst(result.batch, Due)
          /\ q = SubSeq(qAtCall, Due + 1, Len(qAtCall))
    /\ \A k \in 1..(Len(quietSizes) - 1) : quietSizes[k] = batch_size * PerItem

C7_Witness ==
    /\ CallDone /\ strategy.kind = "none" /\ batch_size = 2 /\ raising = {}
    /\ nPut = 5 /\ q = <<>>
    /\ quietSizes = <<2, 2, 1>>
    /\ result.batch = <<Build(Item(5))>>

\* C8: produce_batch raises RequestsExhausted exactly when it obtained no
\* item and the policy is `raise`; with no item and `return_empty` it
\* returns the empty list; in neither case is the strategy invoked; and
\* with a builder that never raises no other error leaves produce_batch.
C8_ExhaustionPolicy ==
    CallDone =>
        /\ (result.kind = "RequestsExhausted") <=>
              (Obtained = 0 /\ on_empty = "raise")
        /\ (Obtained = 0 /\ on_empty = "return_empty") =>
              (result.kind = "returned" /\ result.batch = <<>>)
        /\ Obtained = 0 => result.expands = 0
        /\ raising = {} => result.kind \in {"returned", "RequestsExhausted"}

C8_Witness ==
    /\ CallDone /\ strategy.kind = "grpo" /\ on_empty = "raise"
    /\ nPut = 2 /\ q = <<>> /\ pulls = 1 /\ emptyAt = Some(2)
    /\ result.kind = "RequestsExhausted" /\ result.expands = 0

\* C9: a call makes at most batch_size get_nowait attempts; while it is in
\* the loop its next attempt can be taken at once whatever the queue holds
\* and whatever the producers have done (it never waits for an item); the
\* first attempt that finds the queue empty is the last; and the batch holds
\* no item enqueued after that observation.
C9_BoundedNonBlockingPulls ==
    /\ pulls <= batch_size
    /\ pc = "loop" => (pulls < batch_size /\ emptyAt = None)
    /\ pc = "loop" => ENABLED (GetEmpty \/ GetItem \/ GetItemBuildRaises)
    /\ (pc = "after" /\ emptyAt # None) =>
          \A k \in 1..Len(reqs) : reqs[k].env_seed[1] <= emptyAt[1]
    /\ (CallDone /\ emptyAt # None) =>
          \A k \in 1..Len(result.batch) : result.batch[k].env_seed[1] <= emptyAt[1]

C9_Witness ==
    /\ CallDone /\ batch_size = 2 /\ pulls = 2
    /\ emptyAt = Some(1) /\ nPut = 2 /\ q = <<Item(2)>>
    /\ result.kind = "returned" /\ Len(result.batch) = PerItem
    /\ result.batch[1].env_seed = Some(1)

\* C10: exhaustion is not latched.  When the call before found nothing and
\* producers have since enqueued k >= 1 items, the next call does not fail
\* with RequestsExhausted: it returns a non-empty batch, which, no producer
\* interfering, is the requests of the first min(batch_size, k) items.
C10_ExhaustionNotLatched ==
    (CallDone /\ prevExhausted /\ Len(qAtCall) >= 1 /\ NoneRaises(1)) =>
        /\ result.kind # "RequestsExhausted"
        /\ Obtained >= 1
        /\ (raising = {} => (result.kind = "returned" /\ result.batch # <<>>))
        /\ (~putSince /\ NoneRaises(Due)) =>
              (result.kind = "returned" /\ BatchOfFirst(result.batch, Due))

C10_Witness ==
    /\ CallDone /\ prevExhausted /\ on_empty = "raise" /\ batch_size = 2
    /\ qAtCall = <<Item(1)>> /\ ~putSince
    /\ result.kind = "returned" /\ Len(result.batch) = PerItem

----------------------------------------------------------------------------
(* make_dataset_sequence_requests_fn *)

\* The samples argument: the first n samples of the dataset.
SamplesOf(n) == [k \in 1..n |-> Dataset(k)]

\* Mutant: group_size is not checked.
GRPOInitUnchecked(g) == "ok"

\* GRPORequestStrategy.__init__: raise on group_size <= 0.
GRPOInit(g) == IF g <= 0 THEN "ValueError" ELSE "ok"

\* Mutant: a GRPO strategy is made for group_size = 1 too.
MakeStrategyAlways(g) ==
    IF g <= 0 THEN [raised |-> TRUE, strategy |-> NoStrategy]
    ELSE [raised |-> FALSE, strategy |-> [kind |-> "grpo", group_size |-> g]]

\* GRPORequestStrategy(group_size) when group_size != 1, else no strategy.
MakeStrategy(g) ==
    IF g = 1 THEN [raised |-> FALSE, strategy |-> NoStrategy]
    ELSE IF GRPOInit(g) # "ok" THEN [raised |-> TRUE, strategy |-> NoStrategy]
    ELSE [raised |-> FALSE, strategy |-> [kind |-> "grpo", group_size |-> g]]

\* Mutant: an empty samples sequence is accepted.
MakeSequenceOutcomeAnySamples(smp, bs, g) ==
    IF MakeStrategy(g).raised THEN "ValueError" ELSE "ok"

\* What the sequence factory does with its arguments: raise, or return _fn.
MakeSequenceOutcome(smp, bs, g) ==
    IF smp = <<>> THEN "ValueError"
    ELSE IF MakeStrategy(g).raised THEN "ValueError"
    ELSE "ok"

\* random.Random(rng_seed)
SeedRng(seed) == seed % RngPeriod

\* Mutant: every closure draws from one shared stream.
StreamOfShared(a) == 1

\* The stream closure a draws from: its own.
StreamOf(a) == a

\* A draw from range(k).
Randbelow(gen, k) == RngValue(gen) % k

Swap(s, a, b) == [s EXCEPT ![a] = s[b], ![b] = s[a]]

\* rng.shuffle(ord): positions k = len, ..., 2 are swapped with a drawn one.
RECURSIVE ShuffleLoop(_, _, _)
ShuffleLoop(ord, gen, k) ==
    IF k < 2 THEN [order |-> ord, rng |-> gen]
    ELSE ShuffleLoop(Swap(ord, k, Randbelow(gen, k) + 1), RngAdvance(gen), k - 1)

\* order = list(range(len(samples))); if shuffle: rng.shuffle(order)
NewOrder(n, shuf, gen) ==
    IF shuf THEN ShuffleLoop([k \in 1..n |-> k - 1], gen, n)
    ELSE [order |-> [k \in 1..n |-> k - 1], rng |-> gen]

\* Mutant: the new order is shuffled whatever the shuffle flag says.
RewindReshuffles(ord, p, gen, n, shuf) ==
    IF p >= Len(ord)
    THEN LET o == NewOrder(n, TRUE, gen)
         IN  [order |-> o.order, pos |-> 0, rng |-> o.rng]
    ELSE [order |-> ord, pos |-> p, rng |-> gen]

\* if pos >= len(order): pos = 0, and a new order is made.
Rewind(ord, p, gen, n, shuf) ==
    IF p >= Len(ord)
    THEN LET o == NewOrder(n, shuf, gen)
         IN  [order |-> o.order, pos |-> 0, rng |-> o.rng]
    ELSE [order |-> ord, pos |-> p, rng |-> gen]

\* Mutant: the cursor is rewound as soon as it reaches the end.
VisitRewindsEagerly(ord, p, gen, n, shuf) ==
    LET c == Rewind(ord, p + 1, gen, n, shuf)
    IN  [order |-> c.order, pos |-> c.pos, rng |-> c.rng, idx |-> ord[p + 1]]

\* One visit: rewind when due, idx = order[pos], pos += 1.
Visit(ord, p, gen, n, shuf) ==
    LET c == Rewind(ord, p, gen, n, shuf)
    IN  [order |-> c.order, pos |-> c.pos + 1, rng |-> c.rng,
         idx |-> c.order[c.pos + 1]]

\* The request _fn builds for samples[idx].
SeqBuild(idx, sample) ==
    RolloutRequest(EnvSpec("gsm8k", env_kwargs_fn_final(sample)),
                   ProtocolSpec("single_agent", "protocol_kwargs"),
                   1, Some(env_seed_fn_final(idx, sample)),
                   Some(sampling_seed_fn_final(idx, sample)),
                   "inference", MetaOf(idx, sample))

\* Mutant: the loop runs once more than batch_size.
SeqNextOneMore(done, size) == IF done > size THEN "seq_after" ELSE "seq_loop"

\* `for _ in range(batch_size)` of the sequence _fn.
SeqNext(done, size) == IF done >= size THEN "seq_after" ELSE "seq_loop"

\* The part of the sequence _fn after the loop.
SeqFnReturn(reqList, strat, gen, uuids) ==
    IF strat.kind # "none"
    THEN LET st == StrategyExpand(strat, ExpandState(reqList, gen, uuids))
         IN  [kind |-> "returned", batch |-> st.expanded, expands |-> 1,
              rng |-> st.rng, uuids |-> st.uuids, drawn |-> st.drawn]
    ELSE [kind |-> "returned", batch |-> reqList, expands |-> 0,
          rng |-> gen, uuids |-> uuids, drawn |-> <<>>]

----------------------------------------------------------------------------
(* The convenience factories and the closures they return *)

\* Mutant: batch_size is not checked.
MakeRequestsFnFromQueueUnchecked(bs) == "ok"

\* make_requests_fn_from_queue's argument check.
MakeRequestsFnFromQueue(bs) == IF bs <= 0 THEN "ValueError" ELSE "ok"

\* What the queue factory does with its arguments: raise, or return _fn.
MakeQueueOutcome(bs, g) ==
    IF MakeStrategy(g).raised THEN "ValueError"
    ELSE MakeRequestsFnFromQueue(bs)

GroupSizes == {0 - 1, 0} \cup (1..MaxG)
BatchSizes(most) == {0 - 1, 0} \cup (1..most)
HookChoices ==
    [env_kwargs_fn : BOOLEAN, request_meta_fn : BOOLEAN,
     env_seed_fn : BOOLEAN, sampling_seed_fn : BOOLEAN]

\* The call state of a closure on which nothing was called yet.
CallIdle ==
    /\ pc = "idle" /\ i = 0 /\ reqs = <<>>
    /\ result = NoResult /\ prevExhausted = FALSE /\ qAtCall = <<>>
    /\ putSince = FALSE /\ pulls = 0 /\ emptyAt = None /\ quietSizes = <<>>

SeqIdle ==
    /\ order = [a \in Insts |-> <<>>] /\ pos = [a \in Insts |-> 0]
    /\ srng = [a \in Insts |-> 0] /\ inst = 1
    /\ visited = [a \in Insts |-> <<>>]

\* A program about to call one of the two factories.
InitFactory ==
    /\ source \in {"queue", "sequence"}
    /\ group_size \in GroupSizes
    /\ hooks \in HookChoices
    /\ batch_size \in BatchSizes(IF source = "queue" THEN MaxBatch ELSE MaxSeqBatch)
    /\ strategy = NoStrategy
    /\ rng \in (IF source = "queue" /\ group_size > 1 THEN RngStates ELSE {0})
    /\ StrategyIdle
    /\ nPut \in (IF source = "queue" THEN 0..MaxFill ELSE {0})
    /\ q = [k \in 1..nPut |-> Item(k)]
    /\ on_empty \in (IF source = "queue" THEN {"raise", "return_empty"} ELSE {"raise"})
    /\ raising = {}
    /\ samples \in (IF source = "sequence"
                    THEN {SamplesOf(n) : n \in 0..MaxSamples} ELSE {<<>>})
    /\ shuffle \in (IF source = "sequence" THEN BOOLEAN ELSE {FALSE})
    /\ rng_seed \in (IF shuffle THEN RngStates ELSE {0})
    /\ CallIdle
    /\ SeqIdle
    /\ built = [a \in Insts |-> "no"]
    /\ EnvIdle
    /\ GhostIdle
    /\ RaceIdle

args == <<source, group_size, hooks, samples, shuffle, rng_seed>>
callHistory == <<prevExhausted, qAtCall, putSince, pulls, emptyAt, quietSizes>>

\* fn = make_dataset_queue_requests_fn(q, batch_size=..., group_size=..., ...)
MakeQueueFn ==
    /\ source = "queue"
    /\ built[1] = "no"
    /\ built' = [built EXCEPT ![1] = MakeQueueOutcome(batch_size, group_size)]
    /\ strategy' = IF built'[1] = "ok" THEN MakeStrategy(group_size).strategy
                   ELSE strategy
    /\ UNCHANGED <<factoryVars, stratHistory, rng, uuidCount, q, nPut, batch_size,
                   on_empty, raising, pc, i, reqs, result, callHistory>>
    /\ UNCHANGED envVars
    /\ UNCHANGED ghostVars
    /\ UNCHANGED raceVars

\* fn = make_dataset_sequence_requests_fn(samples, batch_size=..., ...)
MakeSeqFn(a) ==
    /\ source = "sequence"
    /\ built[a] = "no"
    /\ pc = "idle"
    /\ built' = [built EXCEPT ![a] = MakeSequenceOutcome(samples, batch_size, group_size)]
    /\ IF built'[a] = "ok"
       THEN LET o == NewOrder(Len(samples), shuffle, SeedRng(rng_seed)) IN
              /\ order' = [order EXCEPT ![a] = o.order]
              /\ srng' = [srng EXCEPT ![StreamOf(a)] = o.rng]
              /\ pos' = [pos EXCEPT ![a] = 0]
              /\ strategy' = MakeStrategy(group_size).strategy
       ELSE UNCHANGED <<order, srng, pos, strategy>>
    /\ UNCHANGED <<args, inst, visited, stratHistory, rng, uuidCount, q, nPut,
                   batch_size, on_empty, raising, pc, i, reqs, result, callHistory>>
    /\ UNCHANGED envVars
    /\ UNCHANGED ghostVars
    /\ UNCHANGED raceVars

\* The caller calls produce_batch() of sequence-backed closure a.
SeqCall(a) ==
    /\ pc = "idle"
    /\ source = "sequence"
    /\ built[a] = "ok"
    /\ Len(visited[a]) < MaxVisits
    /\ inst' = a
    /\ pc' = SeqNext(0, batch_size)
    /\ i' = 0
    /\ reqs' = <<>>
    /\ UNCHANGED <<args, built, order, pos, srng, visited, strategy, stratHistory,
                   rng, uuidCount, q, nPut, batch_size, on_empty, raising, result,
                   callHistory>>
    /\ UNCHANGED envVars
    /\ taken' = <<>> /\ UNCHANGED <<delivered, lost>>
    /\ UNCHANGED raceVars

\* One iteration of the loop of the sequence _fn.
SeqVisit ==
    /\ pc = "seq_loop"
    /\ LET v == Visit(order[inst], pos[inst], srng[StreamOf(inst)],
                      Len(samples), shuffle)
       IN  /\ order' = [order EXCEPT ![inst] = v.order]
           /\ pos' = [pos EXCEPT ![inst] = v.pos]
           /\ srng' = [srng EXCEPT ![StreamOf(inst)] = v.rng]
           /\ visited' = [visited EXCEPT ![inst] = Append(@, v.idx)]
           /\ ~BuildRaises(<<v.idx, samples[v.idx + 1]>>)
           /\ reqs' = Append(reqs, SeqBuild(v.idx, samples[v.idx + 1]))
    /\ i' = i + 1
    /\ pc' = SeqNext(i + 1, batch_size)
    /\ UNCHANGED <<args, built, inst, strategy, stratHistory, rng, uuidCount, q,
                   nPut, batch_size, on_empty, raising, result, callHistory>>
    /\ UNCHANGED envVars
    /\ taken' = Append(taken, Len(visited[inst]) + 1) /\ UNCHANGED <<delivered, lost>>
    /\ UNCHANGED raceVars

\* Mutant: a hook error rolls the cursor, the order and the stream back.
VisitFailedRolledBack(ord, p, gen, n, shuf) ==
    [order |-> ord, pos |-> p, rng |-> gen, idx |-> Visit(ord, p, gen, n, shuf).idx]

\* The closure locals when a hook raises in an iteration: what the iteration
\* had assigned before the hook was called.
VisitFailed(ord, p, gen, n, shuf) == Visit(ord, p, gen, n, shuf)

\* One iteration of the loop of the sequence _fn in which a hook raises on
\* the sample: the exception leaves _fn.
SeqVisitRaises ==
    /\ pc = "seq_loop"
    /\ LET v == VisitFailed(order[inst], pos[inst], srng[StreamOf(inst)],
                            Len(samples), shuffle)
       IN  /\ BuildRaises(<<v.idx, samples[v.idx + 1]>>)
           /\ order' = [order EXCEPT ![inst] = v.order]
           /\ pos' = [pos EXCEPT ![inst] = v.pos]
           /\ srng' = [srng EXCEPT ![StreamOf(inst)] = v.rng]
           /\ visited' = [visited EXCEPT ![inst] = Append(@, v.idx)]
    /\ i' = i + 1
    /\ reqs' = <<>>
    /\ result' = HookError(reqs)
    /\ pc' = "idle"
    /\ lost' = lost \cup {taken[k] : k \in 1..Len(taken)} \cup {Len(visited[inst]) + 1}
    /\ taken' = <<>>
    /\ UNCHANGED <<args, built, inst, strategy, stratHistory, rng, uuidCount, q,
                   nPut, batch_size, on_empty, raising, callHistory, delivered,
                   envVars>>
    /\ UNCHANGED raceVars

\* The loop is over: return the requests, through the strategy if one is set.
SeqReturn ==
    /\ pc = "seq_after"
    /\ LET r == SeqFnReturn(reqs, strategy, rng, uuidCount) IN
         /\ result' = [kind |-> r.kind, batch |-> r.batch, expands |-> r.expands]
         /\ rng' = r.rng
         /\ uuidCount' = r.uuids
         /\ drawn' = r.drawn
    /\ reqs' = <<>>
    /\ pc' = "idle"
    /\ UNCHANGED <<args, built, inst, order, pos, srng, visited, strategy, requests,
                   inp, expanded, history, calls, q, nPut, batch_size, on_empty,
                   raising, i, callHistory>>
    /\ UNCHANGED envVars
    /\ taken' = <<>> /\ UNCHANGED <<delivered, lost>>
    /\ UNCHANGED raceVars

NextFactory ==
    \/ MakeQueueFn \/ Call \/ GetEmpty \/ GetItem \/ Return
    \/ MakeSeqFn(1) \/ SeqCall(1) \/ SeqVisit \/ SeqReturn

SpecFactory == InitFactory /\ [][NextFactory]_vars

\* A program about to call one of the two factories with a hook that raises
\* on one of the samples.
InitHooks ==
    /\ source \in {"queue", "sequence"}
    /\ group_size \in 1..MaxG
    /\ hooks = DefaultHooks
    /\ batch_size \in 1..(IF source = "queue" THEN MaxBatch ELSE MaxSeqBatch)
    /\ strategy = NoStrategy
    /\ rng = 0
    /\ StrategyIdle
    /\ nPut \in (IF source = "queue" THEN 0..MaxFill ELSE {0})
    /\ q = [k \in 1..nPut |-> Item(k)]
    /\ on_empty \in (IF source = "queue" THEN {"raise", "return_empty"} ELSE {"raise"})
    /\ raising \in {{"A"}, {"B"}, {"C"}}
    /\ samples \in (IF source = "sequence"
                    THEN {SamplesOf(n) : n \in 1..MaxSamples} ELSE {<<>>})
    /\ shuffle \in (IF source = "sequence" THEN BOOLEAN ELSE {FALSE})
    /\ rng_seed \in (IF shuffle THEN RngStates ELSE {0})
    /\ CallIdle
    /\ SeqIdle
    /\ built = [a \in Insts |-> "no"]
    /\ EnvIdle
    /\ GhostIdle
    /\ RaceIdle

NextHooks ==
    \/ MakeQueueFn \/ Call \/ GetEmpty \/ GetItem \/ GetItemBuildRaises \/ Return
    \/ MakeSeqFn(1) \/ SeqCall(1) \/ SeqVisit \/ SeqVisitRaises \/ SeqReturn

SpecHooks == InitHooks /\ [][NextHooks]_vars

\* Two closures built from the same arguments, called in any interleaving by
\* one thread.
InitPair ==
    /\ source = "sequence"
    /\ group_size = 1
    /\ hooks = DefaultHooks
    /\ batch_size \in 1..MaxSeqBatch
    /\ strategy = NoStrategy
    /\ rng = 0
    /\ StrategyIdle
    /\ nPut = 0 /\ q = <<>> /\ on_empty = "raise" /\ raising = {}
    /\ samples \in {SamplesOf(n) : n \in 1..MaxSamples}
    /\ shuffle = TRUE
    /\ rng_seed \in RngStates
    /\ CallIdle
    /\ SeqIdle
    /\ built = [a \in Insts |-> "no"]
    /\ EnvIdle
    /\ GhostIdle
    /\ RaceIdle

NextPair == \E a \in Insts : MakeSeqFn(a) \/ SeqCall(a) \/ SeqVisit \/ SeqReturn

SpecPair == InitPair /\ [][NextPair]_vars

----------------------------------------------------------------------------
(* Properties of the sequence-backed produce_batch *)

\* A produce_batch call on the sequence-backed closure 1 has finished.
SeqDone ==
    /\ source = "sequence" /\ built[1] = "ok"
    /\ pc = "idle" /\ result.kind # "none"

\* The arguments are valid: non-empty samples, batch_size > 0, group_size >= 1.
SeqValid == source = "sequence" /\ samples # <<>> /\ batch_size > 0 /\ group_size >= 1

\* C11 as stated: for every valid configuration of the sequence-backed
\* source, after any number of calls, produce_batch returns exactly
\* batch_size requests and never fails.
C11_ReturnsBatchSizeRequests ==
    (SeqDone /\ SeqValid) =>
        (result.kind = "returned" /\ Len(result.batch) = batch_size)

\* C11 amended: for every valid configuration of the sequence-backed source,
\* after any number of calls, produce_batch visits exactly batch_size
\* samples, never fails (every finished call returned a list), and returns
\* batch_size * group_size requests: batch_size of them only when
\* group_size = 1.
C11_ReturnsBatchTimesGroup ==
    /\ (SeqValid /\ pc = "seq_loop") => (i < batch_size /\ Len(reqs) = i)
    /\ (SeqValid /\ pc = "seq_after") => Len(reqs) = batch_size
    /\ (SeqDone /\ SeqValid) =>
          /\ i = batch_size
          /\ result.kind = "returned"
          /\ Len(result.batch) = batch_size * group_size
          /\ (group_size = 1 => Len(result.batch) = batch_size)

C11_Witness ==
    /\ SeqDone /\ SeqValid /\ shuffle
    /\ batch_size = 5 /\ group_size = 2 /\ Len(samples) = 3
    /\ Len(visited[1]) = 10 /\ Len(result.batch) = 10

\* The request built from the sample at dataset index idx.
FromSample(idx) == SeqBuild(idx, samples[idx + 1])

\* Requests closure 1 had produced before the current/last call began.
Before == Len(visited[1]) - i

\* C12: with shuffle=False and group_size=1 over n samples, the k-th request
\* produced overall (0-indexed, counted across calls) is built from sample
\* k mod n: [A, B, C] with batch_size 5 gives A B C A B, then C A B C A.
C12_KthRequestIsSampleKModN ==
    (SeqValid /\ ~shuffle /\ group_size = 1 /\ built[1] = "ok") =>
        /\ \A k \in 0..(Len(visited[1]) - 1) :
              visited[1][k + 1] = k % Len(samples)
        /\ \A j \in 1..Len(reqs) :
              reqs[j] = FromSample((Before + j - 1) % Len(samples))
        /\ SeqDone =>
              /\ Len(result.batch) = batch_size
              /\ \A j \in 1..batch_size :
                    result.batch[j] = FromSample((Before + j - 1) % Len(samples))

C12_Witness ==
    /\ SeqDone /\ ~shuffle /\ group_size = 1 /\ hooks = DefaultHooks
    /\ samples = <<"A", "B", "C">> /\ batch_size = 5
    /\ visited[1] = <<0, 1, 2, 0, 1, 2, 0, 1, 2, 0>>
    /\ [j \in 1..5 |-> result.batch[j].env.kwargs.sample] = <<"C", "A", "B", "C", "A">>

\* ord is a permutation of the indices 0..n-1.
IsPermutation(ord, n) ==
    Len(ord) = n /\ { ord[k] : k \in 1..Len(ord) } = 0..(n - 1)

\* What one step does to the cursor of closure 1, once it is built: nothing
\* unless the step requests a sample; a request below the end advances the
\* cursor in the same order; a request at the end (pos = n) resets the cursor,
\* makes the new order from the closure's own stream, and serves the first
\* sample of the new order in the same batch.
CursorStep ==
    LET n == Len(samples)
        requested == visited'[1] # visited[1]
        fresh == NewOrder(n, shuffle, srng[1])
    IN  (source = "sequence" /\ built[1] = "ok") =>
          /\ ~requested =>
                (pos'[1] = pos[1] /\ order'[1] = order[1] /\ srng'[1] = srng[1])
          /\ requested => (pc = "seq_loop" /\ Len(reqs') = Len(reqs) + 1)
          /\ (requested /\ pos[1] < n) =>
                /\ pos'[1] = pos[1] + 1
                /\ order'[1] = order[1] /\ srng'[1] = srng[1]
                /\ visited'[1] = Append(visited[1], order[1][pos[1] + 1])
          /\ (requested /\ pos[1] = n) =>
                /\ pos'[1] = 1
                /\ order'[1] = fresh.order /\ srng'[1] = fresh.rng
                /\ (~shuffle => srng'[1] = srng[1])
                /\ visited'[1] = Append(visited[1], fresh.order[1])

\* C13: in every reachable state of the sequence-backed source the order is
\* a permutation of 0..n-1 and 0 <= pos <= n; the cursor is reset (and, with
\* shuffle, a new permutation drawn from the private stream) exactly when a
\* sample is requested while pos = n, in the middle of serving a batch, which
\* continues from the new order.
C13_CursorAndOrder ==
    /\ []((source = "sequence" /\ built[1] = "ok") =>
            /\ IsPermutation(order[1], Len(samples))
            /\ pos[1] \in 0..Len(samples))
    /\ [][CursorStep]_vars

\* A reset has just happened inside a batch, and the new permutation differs
\* from the one made at construction.
C13_Witness ==
    /\ source = "sequence" /\ built[1] = "ok" /\ shuffle /\ Len(samples) = 3
    /\ pc = "seq_loop" /\ i = 4 /\ batch_size = 5
    /\ pos[1] = 1 /\ Len(visited[1]) = 4
    /\ order[1] # NewOrder(3, TRUE, SeedRng(rng_seed)).order
    /\ visited[1][4] = order[1][1]

\* C15: with no env_seed override, every request of the sequence-backed
\* source carries as env_seed the dataset index of the sample it was built
\* from, in every epoch and under every permutation, also after GRPO
\* expansion: not the cursor position and not the count of visits.
C15_DefaultSeedIsDatasetIndex ==
    (source = "sequence" /\ built[1] = "ok" /\ ~hooks.env_seed_fn) =>
        /\ \A j \in 1..Len(reqs) :
              /\ reqs[j].env_seed = Some(visited[1][Before + j])
              /\ reqs[j].env.kwargs = env_kwargs_fn_final(samples[reqs[j].env_seed[1] + 1])
        /\ SeqDone =>
              \A k \in 1..Len(result.batch) :
                 /\ result.batch[k].env_seed = Some(visited[1][Before + ItemOf(k)])
                 /\ result.batch[k].env.kwargs =
                       env_kwargs_fn_final(samples[result.batch[k].env_seed[1] + 1])

\* In the second epoch of a shuffled run the sample at index 1 is served at
\* cursor position 0 as the fourth visit (visit count 3), and its env_seed
\* is 1.
C15_Witness ==
    /\ source = "sequence" /\ shuffle /\ hooks = DefaultHooks /\ Len(samples) = 3
    /\ pc = "seq_loop" /\ Len(visited[1]) = 4 /\ pos[1] = 1
    /\ visited[1][4] = 1 /\ visited[1][1] # 1
    /\ reqs[Len(reqs)].env_seed = Some(1)
    /\ reqs[Len(reqs)].env.kwargs.sample = "B"

----------------------------------------------------------------------------
(* Properties of both convenience factories *)

\* The (idx, sample) the j-th base request of the current call is built
\* from: the j-th item the queue held when the call began, or the j-th
\* sample visited in the call.
BaseItem(j) ==
    IF source = "queue" THEN qAtCall[j]
    ELSE <<visited[1][Before + j], samples[visited[1][Before + j] + 1]>>

\* The base request the claim describes for (idx, sample) under overrides h.
Described(h, idx, sample) ==
    [env |-> [kind |-> "gsm8k",
              kwargs |-> IF h.env_kwargs_fn THEN EnvKwargsFn(sample)
                         ELSE [sample |-> sample]],
     protocol |-> [kind |-> "single_agent", kwargs |-> "protocol_kwargs"],
     num_episodes |-> 1,
     env_seed |-> Some(IF h.env_seed_fn THEN EnvSeedFn(idx, sample) ELSE idx),
     sampling_seed |-> Some(IF h.sampling_seed_fn THEN SamplingSeedFn(idx, sample)
                            ELSE idx),
     inference |-> "inference",
     meta |-> IF h.request_meta_fn THEN RequestMetaFn(idx, sample) ELSE EmptyMeta]

\* C16: in both convenience sources the base request of (idx, sample) has the
\* configured env kind, env kwargs {"sample": sample} unless overridden, the
\* protocol kwargs fixed at construction, empty meta unless overridden, and
\* both seeds idx unless overridden; with a seed override the request
\* differs from the one built without it in that seed alone.
C16_BaseRequestFields ==
    (source \in {"queue", "sequence"} /\ built[1] = "ok") =>
        \A j \in 1..Len(reqs) :
            LET idx == BaseItem(j)[1]
                sample == BaseItem(j)[2]
                r == reqs[j]
            IN  /\ r = Described(hooks, idx, sample)
                /\ r.env.kind = "gsm8k"
                /\ r.protocol.kwargs = "protocol_kwargs"
                /\ [r EXCEPT !.env_seed = Some(idx)] =
                      Described([hooks EXCEPT !.env_seed_fn = FALSE], idx, sample)
                /\ [r EXCEPT !.sampling_seed = Some(idx)] =
                      Described([hooks EXCEPT !.sampling_seed_fn = FALSE], idx, sample)

\* The queue factory with meta and env_seed overrides has built the requests
\* of items (1, A) and (2, B).
C16_Witness ==
    /\ source = "queue" /\ pc = "after" /\ batch_size = 2
    /\ hooks = [env_kwargs_fn |-> FALSE, request_meta_fn |-> TRUE,
                env_seed_fn |-> TRUE, sampling_seed_fn |-> FALSE]
    /\ Len(reqs) = 2
    /\ reqs[2].env = [kind |-> "gsm8k", kwargs |-> [sample |-> "B"]]
    /\ reqs[2].meta["sample_index"] = Some(2)
    /\ reqs[2].env_seed = Some(12) /\ reqs[2].sampling_seed = Some(2)

\* A produce_batch call of the one closure has returned a list.
Returned ==
    /\ source \in {"queue", "sequence"} /\ built[1] = "ok"
    /\ pc = "idle" /\ result.kind = "returned"

\* Base requests the last call built.
Bases == IF source = "queue" THEN Obtained ELSE IF batch_size > 0 THEN batch_size ELSE 0

\* C17: in the convenience factories with group_size G != 1, each item
\* (idx, sample) yields G contiguous requests, in item order, whose env_seed
\* all equal env_seed_fn(idx, sample) and whose sampling seeds are
\* sampling_seed_fn(idx, sample) + 0, ..., + (G-1) in that order; the
\* strategy's random stream is not consulted.
C17_ExplicitSeedsThroughGRPO ==
    /\ (source \in {"queue", "sequence"}) => drawn = <<>>
    /\ (Returned /\ group_size # 1) =>
          /\ Len(result.batch) = Bases * group_size
          /\ \A k \in 1..Len(result.batch) :
                LET j == ((k - 1) \div group_size) + 1
                    d == Described(hooks, BaseItem(j)[1], BaseItem(j)[2])
                IN  /\ result.batch[k].env_seed = d.env_seed
                    /\ result.batch[k].sampling_seed =
                          Some(d.sampling_seed[1] + ((k - 1) % group_size))
                    /\ result.batch[k].env = d.env

\* The queue factory with sampling_seed_fn = 100 and group_size 3 has turned
\* one item into three requests with sampling seeds 100, 101, 102.
C17_Witness ==
    /\ Returned /\ source = "queue" /\ group_size = 3 /\ batch_size = 1
    /\ hooks.sampling_seed_fn /\ ~hooks.env_seed_fn
    /\ qAtCall # <<>> /\ qAtCall[1] = Item(1)
    /\ [k \in 1..Len(result.batch) |-> result.batch[k].sampling_seed] =
          <<Some(100), Some(101), Some(102)>>
    /\ \A k \in 1..3 : result.batch[k].env_seed = Some(1)
    /\ drawn = <<>>

\* C18: with group_size = 1 the factories set no strategy; produce_batch
\* returns exactly one request per pulled or visited sample, each the
\* builder's request as it was built: seeds unchanged, no group_id in meta,
\* no expand call and no uuid drawn.
C18_GroupSizeOneNoGrouping ==
    (source \in {"queue", "sequence"} /\ built[1] = "ok" /\ group_size = 1) =>
        /\ strategy = NoStrategy
        /\ uuidCount = 0
        /\ Returned =>
              /\ result.expands = 0
              /\ Len(result.batch) = Bases
              /\ \A k \in 1..Len(result.batch) :
                    /\ result.batch[k] =
                          Described(hooks, BaseItem(k)[1], BaseItem(k)[2])
                    /\ result.batch[k].meta["group_id"] = None

\* The queue factory with a meta override and group_size 1 has returned the
\* requests of two items.
C18_Witness ==
    /\ Returned /\ source = "queue" /\ group_size = 1 /\ batch_size = 2
    /\ hooks.request_meta_fn /\ ~hooks.env_seed_fn /\ ~hooks.sampling_seed_fn
    /\ Len(result.batch) = 2
    /\ result.batch[1].env_seed = Some(1) /\ result.batch[2].env_seed = Some(2)
    /\ result.batch[2].sampling_seed = Some(2)
    /\ result.batch[2].meta = [sample_index |-> Some(2), group_id |-> None]

----------------------------------------------------------------------------
(* Construction with a batch_size that is not positive *)

\* C19: constructing the sequence-backed source with batch_size <= 0 fails
\* at construction with an error, and no produce_batch callable is returned
\* (none is ever called).
C19_SequenceRejectsBatchSize ==
    (source = "sequence" /\ batch_size <= 0 /\ built[1] # "no") =>
        /\ built[1] = "ValueError"
        /\ pc = "idle" /\ result = NoResult

\* C20: constructing a queue-backed source with batch_size <= 0 fails at
\* construction with ValueError (the configuration error), whatever the
\* other arguments; no produce_batch call ever runs, nothing is pulled, and
\* the queue holds what it held before the factory was called.
C20_QueueRejectsBatchSize ==
    /\ \A bs \in BatchSizes(MaxBatch) :
          bs <= 0 => MakeRequestsFnFromQueue(bs) = "ValueError"
    /\ (source = "queue" /\ batch_size <= 0 /\ built[1] # "no") =>
          /\ built[1] = "ValueError"
          /\ q = [k \in 1..nPut |-> Item(k)]
          /\ pulls = 0 /\ pc = "idle" /\ result = NoResult

\* The queue factory was called with batch_size 0 on a queue of three items
\* and raised; the three items are still queued.
C20_Witness ==
    /\ source = "queue" /\ batch_size = 0 /\ group_size = 1
    /\ built[1] = "ValueError"
    /\ q = <<Item(1), Item(2), Item(3)>>

----------------------------------------------------------------------------
(* Construction with a group_size that is not positive, or with no samples *)

\* C21: GRPORequestStrategy(group_size <= 0) raises in its constructor, so no
\* expand is ever called on it; both convenience factories called with
\* group_size <= 0 raise at construction: no produce_batch call ever runs,
\* no strategy is set, and the queue holds what it held before.
C21_GroupSizeRejected ==
    /\ \A g \in GroupSizes : g <= 0 => GRPOInit(g) = "ValueError"
    /\ (source \in {"queue", "sequence"} /\ group_size <= 0 /\ built[1] # "no") =>
          /\ built[1] = "ValueError"
          /\ strategy = NoStrategy /\ uuidCount = 0
          /\ q = [k \in 1..nPut |-> Item(k)]
          /\ pulls = 0 /\ pc = "idle" /\ result = NoResult
          /\ visited[1] = <<>>

\* The queue factory was called with group_size 0 and a valid batch_size on
\* a queue of three items and raised; the three items are still queued.
C21_Witness ==
    /\ source = "queue" /\ group_size = 0 /\ batch_size = 2
    /\ built[1] = "ValueError"
    /\ q = <<Item(1), Item(2), Item(3)>>

\* C22: constructing the sequence-backed source over an empty samples
\* sequence raises ValueError (the configuration error) at construction,
\* whatever the other arguments: no order or cursor is kept and no
\* produce_batch call ever runs.
C22_EmptySamplesRejected ==
    (source = "sequence" /\ samples = <<>> /\ built[1] # "no") =>
        /\ built[1] = "ValueError"
        /\ order[1] = <<>> /\ pos[1] = 0 /\ visited[1] = <<>>
        /\ pc = "idle" /\ result = NoResult

\* The sequence factory was called with no samples and otherwise valid
\* arguments, and raised.
C22_Witness ==
    /\ source = "sequence" /\ samples = <<>> /\ batch_size = 2 /\ group_size = 1
    /\ shuffle /\ built[1] = "ValueError"

----------------------------------------------------------------------------
(* Two closures built from the same arguments *)

\* s is an initial segment of t.
IsPrefix(s, t) == Len(s) <= Len(t) /\ s = SubSeq(t, 1, Len(s))

\* A step changes the order, cursor, stream and visits of at most one
\* closure: the one being built or called.
OneClosureStep ==
    \A b \in Insts :
        (visited'[b] # visited[b] \/ order'[b] # order[b]
            \/ pos'[b] # pos[b] \/ srng'[b] # srng[b]) =>
        \A c \in Insts \ {b} :
            /\ visited'[c] = visited[c] /\ order'[c] = order[c]
            /\ pos'[c] = pos[c] /\ srng'[c] = srng[c]

\* C14: two closures built with shuffle=True and the same rng_seed, samples
\* and batch_size visit the same sequence of sample indices, however many
\* calls each has served and however the calls on the two are interleaved
\* (the shorter history is an initial segment of the longer); and a call on
\* one changes nothing of the other.
C14_SameSeedSameVisits ==
    /\ [](IsPrefix(visited[1], visited[2]) \/ IsPrefix(visited[2], visited[1]))
    /\ [](\A b \in Insts : built[b] = "ok" =>
             visited[b] # <<>> \/ order[b] = NewOrder(Len(samples), TRUE, SeedRng(rng_seed)).order)
    /\ [][OneClosureStep]_vars

\* Both closures have served ten requests over three samples (three wraps),
\* in calls that were interleaved, and the epochs are not all in one order.
C14_Witness ==
    /\ Len(samples) = 3 /\ batch_size = 5 /\ pc = "idle"
    /\ Len(visited[1]) = 10 /\ visited[2] = visited[1]
    /\ SubSeq(visited[1], 1, 3) # SubSeq(visited[1], 4, 6)
    /\ pos[1] = 1 /\ pos[2] = 1 /\ order[1] = order[2]

----------------------------------------------------------------------------
(* DatasetQAEnv *)

\* _identity_parser and _default_verifier
TargetParser(text) == Strip(text)
Verifier(a, b) == Lower(Strip(a)) = Lower(Strip(b))

EnvSamples ==
    { [question |-> "Q1", answer |-> Text("a", FALSE, FALSE), id |-> None],
      [question |-> "Q2", answer |-> Text("b", TRUE, TRUE), id |-> Some("q7")],
      [question |-> "Q3", answer |-> Text("a", TRUE, FALSE), id |-> None] }
EnvActions ==
    { Text("a", FALSE, FALSE), Text("a", TRUE, TRUE), Text("b", FALSE, FALSE),
      Text("b", TRUE, FALSE), Text("", FALSE, FALSE) }
EnvRewards == { <<1, 0>>, <<2, 0 - 1>> }
EnvSeeds == { None, Some(0) }

\* str(sample.get("id") or sample.get("uid") or 0)
QuestionId(sample) == IF sample.id # None THEN sample.id[1] ELSE "0"

\* The fields after env_reset.
EnvAfterReset(e, sample) ==
    [current_prompt |-> Obs("question", sample.question),
     current_answer |-> sample.answer,
     current_id |-> Some(QuestionId(sample)),
     done |-> FALSE,
     latest_obs |-> Obs("question", sample.question)]

\* Mutant: an accepted step does not end the episode.
EnvAfterStepNotDone(e, obs) == [e EXCEPT !.latest_obs = obs]

\* The fields after an accepted env_step.
EnvAfterStep(e, obs) == [e EXCEPT !.done = TRUE, !.latest_obs = obs]

\* The StepOutcome of an accepted env_step(action).
StepOutcome(e, cfg, action) ==
    LET parsed_target == TargetParser(e.current_answer)
        correct == Verifier(action, parsed_target)
        obs == IF correct THEN Obs("correct", None)
               ELSE Obs("incorrect", Some(parsed_target))
    IN  [kind |-> "step", obs |-> obs,
         reward |-> Some(IF correct THEN cfg.correct_reward ELSE cfg.incorrect_reward),
         terminated |-> Some(TRUE), truncated |-> Some(FALSE),
         info |-> [question_id |-> e.current_id, raw_action |-> Some(action),
                   parsed_answer |-> Some(action),
                   target_answer |-> Some(parsed_target),
                   correct |-> Some(correct)]]

InitEnv ==
    /\ envCfg \in { [sample |-> smp, correct_reward |-> r[1], incorrect_reward |-> r[2]] :
                    smp \in EnvSamples, r \in EnvRewards }
    /\ qaEnv = NewEnv
    /\ outcome = NoOutcome
    /\ stepsSince = 0
    /\ strategy = NoStrategy /\ rng = 0 /\ StrategyIdle
    /\ QueueIdle
    /\ FactoryIdle
    /\ built = [a \in Insts |-> "no"]
    /\ GhostIdle
    /\ RaceIdle

\* env_reset(seed=seed)
EnvReset(seed) ==
    /\ qaEnv' = EnvAfterReset(qaEnv, envCfg.sample)
    /\ outcome' = [NoOutcome EXCEPT
                     !.kind = "reset",
                     !.obs = Obs("question", envCfg.sample.question),
                     !.info = [NoInfo EXCEPT
                                 !.question_id = Some(QuestionId(envCfg.sample))]]
    /\ stepsSince' = 0
    /\ UNCHANGED <<envCfg, stratVars, queueVars, factoryVars, built>>
    /\ UNCHANGED ghostVars
    /\ UNCHANGED raceVars

\* env_step(action) while the episode is open.
EnvStep(action) ==
    /\ ~qaEnv.done
    /\ LET out == StepOutcome(qaEnv, envCfg, action) IN
         /\ outcome' = out
         /\ qaEnv' = EnvAfterStep(qaEnv, out.obs)
    /\ stepsSince' = stepsSince + 1
    /\ UNCHANGED <<envCfg, stratVars, queueVars, factoryVars, built>>
    /\ UNCHANGED ghostVars
    /\ UNCHANGED raceVars

\* env_step(action) after the episode finished: RuntimeError.
EnvStepDone(action) ==
    /\ qaEnv.done
    /\ outcome' = [NoOutcome EXCEPT !.kind = "RuntimeError",
                                    !.info = [NoInfo EXCEPT !.raw_action = Some(action)]]
    /\ UNCHANGED <<qaEnv, stepsSince, envCfg, stratVars, queueVars, factoryVars, built>>
    /\ UNCHANGED ghostVars
    /\ UNCHANGED raceVars

NextEnv ==
    \/ \E seed \in EnvSeeds : EnvReset(seed)
    \/ \E action \in EnvActions : EnvStep(action) \/ EnvStepDone(action)

SpecEnv == InitEnv /\ [][NextEnv]_vars

\* What a step may do: while the episode is finished a call either is a
\* reset, which reopens it, or is an env_step, which raises RuntimeError and
\* changes no field; while it is open an accepted step finishes it.
EpisodeStep ==
    /\ qaEnv.done =>
          \/ outcome'.kind = "reset" /\ ~qaEnv'.done /\ stepsSince' = 0
          \/ outcome'.kind = "RuntimeError" /\ qaEnv' = qaEnv
                /\ stepsSince' = stepsSince /\ envCfg' = envCfg
    /\ (~qaEnv.done /\ outcome'.kind = "step") => qaEnv'.done

\* C25: DatasetQAEnv is one-shot.  After a reset exactly one step is
\* accepted; it returns terminated = True, truncated = False and the reward
\* correct_reward or incorrect_reward as the verifier decides (for the default
\* verifier: whether action and answer agree up to blanks and case); a
\* further step before the next reset raises RuntimeError and changes
\* nothing; every reset returns the sample's question and reopens the
\* episode for exactly one step.
C25_OneShotEpisode ==
    /\ [](/\ stepsSince <= 1
          /\ qaEnv.current_id # None => (qaEnv.done <=> stepsSince = 1)
          /\ outcome.kind = "reset" =>
                /\ outcome.obs = Obs("question", envCfg.sample.question)
                /\ qaEnv.latest_obs = outcome.obs
                /\ ~qaEnv.done /\ stepsSince = 0
          /\ outcome.kind = "step" =>
                /\ outcome.terminated = Some(TRUE)
                /\ outcome.truncated = Some(FALSE)
                /\ outcome.info.correct =
                      Some(Verifier(outcome.info.raw_action[1],
                                    TargetParser(qaEnv.current_answer)))
                /\ outcome.info.correct =
                      Some(outcome.info.raw_action[1].core = qaEnv.current_answer.core)
                /\ outcome.reward = Some(IF outcome.info.correct[1]
                                         THEN envCfg.correct_reward
                                         ELSE envCfg.incorrect_reward)
                /\ qaEnv.done /\ stepsSince = 1
          /\ outcome.kind = "RuntimeError" => (qaEnv.done /\ stepsSince = 1))
    /\ [][EpisodeStep]_vars

\* After a reset the answer " A " to the sample with answer "a" was graded
\* correct, and a second step was then refused.
C25_Witness ==
    /\ envCfg.sample.question = "Q1" /\ envCfg.correct_reward = 2
    /\ qaEnv.current_id = Some("0") /\ qaEnv.done
    /\ qaEnv.latest_obs = Obs("correct", None)
    /\ outcome.kind = "RuntimeError" /\ stepsSince = 1
    /\ outcome.info.raw_action = Some(Text("a", TRUE, TRUE))

----------------------------------------------------------------------------
(* Errors of caller-supplied hooks during produce_batch *)

\* The iteration about to run calls a hook that raises: the oldest queued
\* item, or the sample under the cursor, is one the hook fails on.
HookFails ==
    \/ /\ pc = "loop"
       /\ ~GetNowait(q).empty
       /\ BuildRaises(GetNowait(q).item)
    \/ /\ pc = "seq_loop"
       /\ LET v == Visit(order[inst], pos[inst], srng[StreamOf(inst)],
                         Len(samples), shuffle)
          IN  BuildRaises(<<v.idx, samples[v.idx + 1]>>)

\* What the caller of produce_batch sees when the hook raises in a step: the
\* error, as the outcome of that very call, after one call of the hook.
HookErrorStep ==
    HookFails =>
        /\ result'.kind = "error"
        /\ result'.batch = <<>>
        /\ pc' = "idle"
        /\ i' = i + 1
        /\ reqs' = <<>>
        /\ delivered' = delivered

\* C23: an error raised by a caller-supplied hook during produce_batch, of
\* the queue-backed or the sequence-backed source, reaches the caller as it
\* is: the call ends with that error in the iteration that called the hook,
\* the hook is not called again, the outcome is not RequestsExhausted, and no
\* list (so no partial batch) is returned by the call.
C23_HookErrorPropagates ==
    /\ [](result.kind = "error" => result.batch = <<>>)
    /\ [][HookErrorStep]_vars

\* A queue-backed call that had built a request when the hook raised on the
\* next item, and ended with the error.
C23_Witness ==
    /\ source = "queue"
    /\ pc = "idle"
    /\ result.kind = "error"
    /\ Cardinality(lost) >= 2
    /\ delivered = <<>>

\* The put ordinals of a sequence of queue items, and of a sequence of
\* ordinals.
Ordinals(items) == {items[k][1] : k \in 1..Len(items)}
Range(seq) == {seq[k] : k \in 1..Len(seq)}

\* A queue-backed iteration in which build_request raises on the item pulled.
BuildFails ==
    /\ source = "queue"
    /\ pc = "loop"
    /\ ~GetNowait(q).empty
    /\ BuildRaises(GetNowait(q).item)

\* The j-th pull of a call fails: j items are gone, the others stay queued.
BuildFailsStep ==
    BuildFails =>
        /\ q' = Tail(q)
        /\ lost' \ lost = Range(taken) \cup {Head(q)[1]}
        /\ Cardinality(lost' \ lost) = i + 1
        /\ Ordinals(q') \cap lost' = {}

\* An item that was lost is nowhere: not queued, not held by the running
\* call, in no batch that was returned.
LostStayLost ==
    /\ Ordinals(q) \cap lost = {}
    /\ Range(taken) \cap lost = {}
    /\ Range(delivered) \cap lost = {}
    /\ (result.kind = "returned" =>
          \A k \in 1..Len(result.batch) :
              \A x \in lost : result.batch[k].env_seed # Some(x))
    /\ \A a, b \in 1..Len(q) : a < b => q[a][1] < q[b][1]
    /\ (1..nPut) = Ordinals(q) \cup Range(taken) \cup Range(delivered) \cup lost

\* C28: when build_request raises on the j-th item pulled in a queue-backed
\* produce_batch call, the j items that call removed from the queue (the one
\* it failed on and the j-1 built before it) are not put back: they are not
\* in the queue afterwards and no later call delivers them, while the items
\* not yet pulled stay queued in their order.
C28_PulledItemsLostOnBuildError ==
    /\ []LostStayLost
    /\ [][BuildFailsStep]_vars

\* The builder failed on the second item of a call (items 2 and 3 are gone),
\* and later calls delivered the items behind them.
C28_Witness ==
    /\ lost = {2, 3}
    /\ delivered = <<1, 4, 5>>
    /\ q = <<>>

\* A sequence-backed iteration in which a hook raises on the sample visited.
SeqFails ==
    /\ source = "sequence"
    /\ pc = "seq_loop"
    /\ LET v == Visit(order[inst], pos[inst], srng[StreamOf(inst)],
                      Len(samples), shuffle)
       IN  BuildRaises(<<v.idx, samples[v.idx + 1]>>)

\* The hook raises in the j-th iteration of a call (j = i + 1): the closure
\* keeps what the iteration assigned before the hook ran (the reset and the
\* new order if pos was at the end, and the advanced cursor), and the j
\* visits of the call are spent.
CursorKeptStep ==
    SeqFails =>
        LET v == Visit(order[1], pos[1], srng[1], Len(samples), shuffle)
        IN  /\ pos'[1] = v.pos
            /\ pos'[1] = (IF pos[1] >= Len(samples) THEN 1 ELSE pos[1] + 1)
            /\ order'[1] = v.order
            /\ srng'[1] = v.rng
            /\ visited'[1] = Append(visited[1], v.idx)
            /\ lost' \ lost = (Len(visited[1]) - i + 1)..(Len(visited[1]) + 1)
            /\ Cardinality(lost' \ lost) = i + 1

\* The epoch (1, 2, ...) of the k-th visit of a closure over n samples.
EpochOf(k, n) == ((k - 1) \div n) + 1

\* The visits of closure 1, failed calls included, walk the epochs: no index
\* twice in an epoch, and in dataset order without shuffle. A returned batch
\* is made of the visits of its own call, none of them a spent one.
SpentVisitsSkipped ==
    (source = "sequence" /\ built[1] = "ok") =>
        LET n == Len(samples) IN
        /\ \A a, b \in 1..Len(visited[1]) :
              (a < b /\ EpochOf(a, n) = EpochOf(b, n)) =>
                  visited[1][a] # visited[1][b]
        /\ (~shuffle => \A k \in 1..Len(visited[1]) :
                            visited[1][k] = (k - 1) % n)
        /\ lost \subseteq 1..Len(visited[1])
        /\ \A x \in lost : BuildRaises(<<visited[1][x], samples[visited[1][x] + 1]>>)
                             \/ (x + 1) \in lost
        /\ (pc = "idle" /\ result.kind = "returned") =>
              /\ Len(result.batch) = i * PerItem
              /\ (Before + 1)..Len(visited[1]) \cap lost = {}
              /\ \A k \in 1..Len(result.batch) :
                    result.batch[k].env_seed =
                        Some(visited[1][Before + ItemOf(k)])

\* C29: when an override function raises while the sequence-backed source
\* builds the j-th request of a batch, neither the cursor nor a reshuffle
\* done in that call is rolled back: the cursor stays past the j samples the
\* failed call visited, the next call goes on from the sample after the one
\* that failed, and the j samples are not served again in that epoch.
C29_CursorNotRolledBack ==
    /\ []SpentVisitsSkipped
    /\ [][CursorKeptStep]_vars

\* A call failed on the first sample of a second, reshuffled epoch, and the
\* call after it returned a batch of the samples that follow.
C29_Witness ==
    /\ source = "sequence" /\ shuffle
    /\ pc = "idle" /\ result.kind = "returned"
    /\ \E x \in lost : x > Len(samples) /\ x < Before + 1
    /\ order[1] # NewOrder(Len(samples), TRUE, SeedRng(rng_seed)).order

----------------------------------------------------------------------------
(* Epochs of the sequence-backed source *)

\* How often closure 1 has visited the sample of index idx.
VisitCount(idx) ==
    Cardinality({k \in 1..Len(visited[1]) : visited[1][k] = idx})

\* The visits of closure 1 fall into epochs of n: the cursor is reset at the
\* visits n+1, 2n+1, ..., every complete epoch holds every index once, the
\* running epoch holds no index twice, and the visit counts of two samples
\* differ by at most 1.
EpochsBalanced ==
    (source = "sequence" /\ built[1] = "ok") =>
        LET n == Len(samples)
            v == visited[1]
        IN  /\ pos[1] = (IF v = <<>> THEN 0 ELSE ((Len(v) - 1) % n) + 1)
            /\ \A e \in 1..EpochOf(Len(v), n) :
                  LET block == ((e - 1) * n + 1)..Min(e * n, Len(v))
                  IN  /\ \A a, b \in block : a < b => v[a] # v[b]
                      /\ (e * n <= Len(v) =>
                            {v[k] : k \in block} = 0..(n - 1))
            /\ \A a, b \in 0..(n - 1) :
                  /\ VisitCount(a) - VisitCount(b) <= 1
                  /\ VisitCount(b) - VisitCount(a) <= 1

\* A finished call has visited at least one sample: with the epochs above,
\* n calls in a row then visit every sample, and repeated calls visit every
\* sample again and again.
EveryCallVisits ==
    (SeqDone /\ source = "sequence") => i >= 1

\* C27: the sequence-backed source visits samples in balanced epochs: between
\* two cursor resets every index is visited once, so after any number of
\* calls (any batch_size, shuffle on or off) the visit counts of two samples
\* differ by at most 1, and repeated calls visit every sample infinitely
\* often (every call makes progress through the epochs).
C27_BalancedEpochs == EpochsBalanced /\ EveryCallVisits

----------------------------------------------------------------------------
(* Producers and one consumer of the queue-backed source *)

\* Every item put so far is in one place: queued, held by the running call,
\* or delivered; none is gone. The delivered items and the queued ones are in
\* the order of the puts, the delivered ones before those held, and those
\* before the queued ones.
NothingLostOrReordered ==
    /\ lost = {}
    /\ (delivered \o taken) \o [k \in 1..Len(q) |-> q[k][1]]
          = [k \in 1..nPut |-> k]
    /\ \A k \in 1..Len(q) : q[k] = Item(q[k][1])
    /\ Len(reqs) = Len(taken)
    /\ \A k \in 1..Len(reqs) : reqs[k] = Build(Item(taken[k]))

\* A call returns: its batch holds one request per item it took, in the order
\* it took them, and these are the items that follow those delivered before.
DeliverStep ==
    (pc = "after" /\ pc' = "idle") =>
        /\ (taken # <<>> => result'.kind = "returned")
        /\ delivered' = delivered \o taken
        /\ result'.batch = [k \in 1..Len(taken) |-> Build(Item(taken[k]))]

\* C26: with producers enqueuing while a single consumer calls the
\* queue-backed produce_batch (the builder never raises, no strategy), no
\* item is lost, duplicated or reordered: every item put is the origin of at
\* most one request over all returned batches, the returned batches put end
\* to end follow the FIFO order of the queue, and with produce_batch called
\* again and again every item put is eventually delivered in a batch.
C26_NoItemLostDuplicatedReordered ==
    /\ []NothingLostOrReordered
    /\ [][DeliverStep]_vars
    /\ \A k \in 1..MaxPuts : (nPut >= k) ~> (\E j \in 1..Len(delivered) : delivered[j] = k)

\* All the items were delivered, the last batch holding an item that a
\* producer put while the call was running.
C26_Witness ==
    /\ delivered = [k \in 1..MaxPuts |-> k]
    /\ pc = "idle" /\ result.kind = "returned"
    /\ Len(result.batch) = 2 /\ Len(qAtCall) = 1

----------------------------------------------------------------------------
(* One sequence-backed closure called from several threads *)

\* The statements of an iteration of _fn that touch the closure's cells pos
\* and order, each a step of its own, so that another thread can run between
\* any two of them; `pos += 1` loads pos and then stores the sum.

\* Mutant: the bound check lets pos = len(order) through.
CursorAtEndStrict(p, ord) == p > Len(ord)

\* if pos >= len(order):
CursorAtEnd(p, ord) == p >= Len(ord)

\* `for _ in range(batch_size)` after k iterations.
LoopNext(k, size) == IF k >= size THEN "done" ELSE "check"

raceShared == <<order, pos, srng>>
raceHistory == <<served, twice, fault>>
raceFixed == <<callers, args, built, inst, visited, stratVars, queueVars, envVars,
               ghostVars>>

\* A program whose one or two threads share a sequence-backed closure.
InitRace ==
    /\ source = "sequence"
    /\ group_size = 1
    /\ hooks = DefaultHooks
    /\ batch_size \in 1..MaxRaceBatch
    /\ strategy = NoStrategy
    /\ rng = 0
    /\ StrategyIdle
    /\ nPut = 0 /\ q = <<>>
    /\ on_empty = "raise"
    /\ raising = {}
    /\ samples \in {SamplesOf(n) : n \in 1..MaxSamples}
    /\ shuffle \in BOOLEAN
    /\ rng_seed = 0
    /\ CallIdle
    /\ SeqIdle
    /\ built = [a \in Insts |-> "no"]
    /\ EnvIdle
    /\ GhostIdle
    /\ callers \in Threads
    /\ thr = [t \in Threads |-> IdleThread]
    /\ served = {} /\ twice = {} /\ fault = FALSE

\* Thread t calls produce_batch(): reqs = [] and the loop begins.
RaceCall(t) ==
    /\ t <= callers
    /\ built[1] = "ok"
    /\ thr[t].pc = "idle"
    /\ thr[t].ncalls < MaxRaceCalls
    /\ thr' = [thr EXCEPT ![t].pc = LoopNext(0, batch_size), ![t].k = 0,
                          ![t].ncalls = @ + 1]
    /\ UNCHANGED <<raceShared, raceHistory, raceFixed>>

\* Thread t evaluates `pos >= len(order)`.
RaceCheck(t) ==
    /\ thr[t].pc = "check"
    /\ thr' = [thr EXCEPT ![t].pc = IF CursorAtEnd(pos[1], order[1])
                                    THEN "reset" ELSE "read"]
    /\ UNCHANGED <<raceShared, raceHistory, raceFixed>>

\* Thread t runs the body of the if: pos = 0 and a new order. A new epoch
\* begins.
RaceReset(t) ==
    /\ thr[t].pc = "reset"
    /\ LET o == NewOrder(Len(samples), shuffle, srng[1]) IN
         /\ order' = [order EXCEPT ![1] = o.order]
         /\ srng' = [srng EXCEPT ![1] = o.rng]
    /\ pos' = [pos EXCEPT ![1] = 0]
    /\ served' = {}
    /\ thr' = [thr EXCEPT ![t].pc = "read"]
    /\ UNCHANGED <<twice, fault, raceFixed>>

\* Thread t evaluates `idx = order[pos]`: an IndexError ends its call when
\* pos is not below len(order).
RaceRead(t) ==
    /\ thr[t].pc = "read"
    /\ IF pos[1] >= Len(order[1])
       THEN /\ fault' = TRUE
            /\ thr' = [thr EXCEPT ![t].pc = "idle"]
            /\ UNCHANGED <<served, twice>>
       ELSE /\ thr' = [thr EXCEPT ![t].pc = "load"]
            /\ served' = served \cup {<<t, pos[1]>>}
            /\ twice' = twice
                  \cup (IF <<t, pos[1]>> \in served THEN {"same"} ELSE {})
                  \cup (IF \E u \in Threads \ {t} : <<u, pos[1]>> \in served
                        THEN {"other"} ELSE {})
            /\ UNCHANGED fault
    /\ UNCHANGED <<raceShared, raceFixed>>

\* Thread t loads pos for `pos += 1`.
RaceLoad(t) ==
    /\ thr[t].pc = "load"
    /\ thr' = [thr EXCEPT ![t].pc = "store", ![t].tmp = pos[1]]
    /\ UNCHANGED <<raceShared, raceHistory, raceFixed>>

\* Thread t stores pos + 1, builds the request of samples[idx] (which
\* touches no shared cell) and goes to the next iteration.
RaceStore(t) ==
    /\ thr[t].pc = "store"
    /\ pos' = [pos EXCEPT ![1] = thr[t].tmp + 1]
    /\ thr' = [thr EXCEPT ![t].pc = LoopNext(thr[t].k + 1, batch_size),
                          ![t].k = @ + 1, ![t].tmp = 0]
    /\ UNCHANGED <<order, srng, raceHistory, raceFixed>>

\* Thread t returns its batch.
RaceReturn(t) ==
    /\ thr[t].pc = "done"
    /\ thr' = [thr EXCEPT ![t].pc = "idle"]
    /\ UNCHANGED <<raceShared, raceHistory, raceFixed>>

NextRace ==
    \/ MakeSeqFn(1)
    \/ \E t \in Threads :
          \/ RaceCall(t) \/ RaceCheck(t) \/ RaceReset(t) \/ RaceRead(t)
          \/ RaceLoad(t) \/ RaceStore(t) \/ RaceReturn(t)

SpecRace == InitRace /\ [][NextRace]_vars

\* C30: the sequence-backed source is not safe for concurrent callers. Under
\* a single caller the order is never read out of range and no position of
\* an epoch is served twice: every read is at a position below n. With two
\* calls interleaved between the bound check, the read of order[pos] and the
\* increment of pos, both states are reachable (the witness).
C30_SingleCallerSafe ==
    (callers = 1) =>
        /\ ~fault
        /\ twice = {}
        /\ \A e \in served : e[2] < Len(samples)
        /\ pos[1] <= Len(samples)

\* Two callers: a read of order[pos] was out of range, and a position of an
\* epoch was served to both threads.
C30_Witness ==
    /\ callers = 2
    /\ fault
    /\ "other" \in twice

====
